---- MODULE Spec2Model ----
(***************************************************************************)
(* The passive-effect resolution engine of the combat simulator:           *)
(* src/combat/effects.py (the data classes), src/combat/effect_definitions *)
(* .py (the catalog) and src/combat/effect_engine.py (detection, stacking  *)
(* and modifier resolution).                                               *)
(*                                                                         *)
(* Python floats are modelled as exact rationals <<numerator, denominator>>*)
(* in lowest terms; Optional[T] as a sequence of length 0 (None) or 1;     *)
(* a dict as the sequence of its <<key, value>> pairs in insertion order;  *)
(* a str as a TLA+ string whose characters are listed in Chars, so that    *)
(* lower(), replace() and the substring test `in` are computed on the      *)
(* characters.                                                             *)
(***************************************************************************)
EXTENDS Integers, Sequences, FiniteSets, TLC

\* ------------------------------------------------------------ Optional[T]
None == <<>>
Some(x) == <<x>>
IsNone(o) == Len(o) = 0
Get(o) == o[1]

\* ------------------------------------------------------------ sequences
Range(s) == {s[i] : i \in DOMAIN s}
Map(s, F(_)) == [i \in DOMAIN s |-> F(s[i])]
RECURSIVE Concat(_)
\* The concatenation of a sequence of sequences.
Concat(ss) == IF Len(ss) = 0 THEN <<>> ELSE Head(ss) \o Concat(Tail(ss))

\* ------------------------------------------------------------ float
RECURSIVE GCD(_, _)
GCD(a, b) == IF b = 0 THEN a ELSE GCD(b, a % b)
Abs(n) == IF n < 0 THEN -n ELSE n
\* n/d in lowest terms with a positive denominator.
Rat(n, d) ==
    LET g == GCD(Abs(n), Abs(d))
        sgn == IF d < 0 THEN -1 ELSE 1
    IN <<sgn * (n \div g), sgn * (d \div g)>>
RZero == Rat(0, 1)
ROne == Rat(1, 1)
RMul(a, b) == Rat(a[1] * b[1], a[2] * b[2])
RAdd(a, b) == Rat(a[1] * b[2] + b[1] * a[2], a[2] * b[2])
RSub(a, b) == Rat(a[1] * b[2] - b[1] * a[2], a[2] * b[2])
RLt(a, b) == a[1] * b[2] < b[1] * a[2]
RLeq(a, b) == a[1] * b[2] <= b[1] * a[2]
RGeq(a, b) == RLeq(b, a)
\* int(x) for x >= 0: truncation.
RInt(a) == a[1] \div a[2]
RECURSIVE RSum(_)
\* sum(...) over a sequence of floats, left to right from 0.
RSum(s) == IF Len(s) = 0 THEN RZero ELSE RAdd(RSum(SubSeq(s, 1, Len(s) - 1)), s[Len(s)])
Max(a, b) == IF a >= b THEN a ELSE b

\* ------------------------------------------------------------ str

\* The characters of every string literal the model uses.
Chars ==
    (""                           :> <<>>) @@
    ("Abyssal whip"               :> <<"A", "b", "y", "s", "s", "a", "l", " ", "w", "h", "i", "p">>) @@
    ("abyssal_whip"               :> <<"a", "b", "y", "s", "s", "a", "l", "_", "w", "h", "i", "p">>) @@
    ("Crush"                      :> <<"C", "r", "u", "s", "h">>) @@
    ("Keris partisan"             :> <<"K", "e", "r", "i", "s", " ", "p", "a", "r", "t", "i", "s", "a", "n">>) @@
    ("Osmumten's fang"            :> <<"O", "s", "m", "u", "m", "t", "e", "n", "'", "s", " ", "f", "a", "n", "g">>) @@
    ("Scythe of vitur"            :> <<"S", "c", "y", "t", "h", "e", " ", "o", "f", " ", "v", "i", "t", "u", "r">>) @@
    ("Toktz-xil-ak"               :> <<"T", "o", "k", "t", "z", "-", "x", "i", "l", "-", "a", "k">>) @@
    ("ahrims_hood"                :> <<"a", "h", "r", "i", "m", "s", "_", "h", "o", "o", "d">>) @@
    ("ahrims_robeskirt"           :> <<"a", "h", "r", "i", "m", "s", "_", "r", "o", "b", "e", "s", "k", "i", "r", "t">>) @@
    ("ahrims_robetop"             :> <<"a", "h", "r", "i", "m", "s", "_", "r", "o", "b", "e", "t", "o", "p">>) @@
    ("ahrims_staff"               :> <<"a", "h", "r", "i", "m", "s", "_", "s", "t", "a", "f", "f">>) @@
    ("amulet_of_avarice"          :> <<"a", "m", "u", "l", "e", "t", "_", "o", "f", "_", "a", "v", "a", "r", "i", "c", "e">>) @@
    ("arclight"                   :> <<"a", "r", "c", "l", "i", "g", "h", "t">>) @@
    ("berserker_necklace"         :> <<"b", "e", "r", "s", "e", "r", "k", "e", "r", "_", "n", "e", "c", "k", "l", "a", "c", "e">>) @@
    ("black_mask"                 :> <<"b", "l", "a", "c", "k", "_", "m", "a", "s", "k">>) @@
    ("black_mask_i"               :> <<"b", "l", "a", "c", "k", "_", "m", "a", "s", "k", "_", "i">>) @@
    ("bow_of_faerdhinen"          :> <<"b", "o", "w", "_", "o", "f", "_", "f", "a", "e", "r", "d", "h", "i", "n", "e", "n">>) @@
    ("craws_bow"                  :> <<"c", "r", "a", "w", "s", "_", "b", "o", "w">>) @@
    ("crush"                      :> <<"c", "r", "u", "s", "h">>) @@
    ("crystal_body"               :> <<"c", "r", "y", "s", "t", "a", "l", "_", "b", "o", "d", "y">>) @@
    ("crystal_bow"                :> <<"c", "r", "y", "s", "t", "a", "l", "_", "b", "o", "w">>) @@
    ("crystal_helm"               :> <<"c", "r", "y", "s", "t", "a", "l", "_", "h", "e", "l", "m">>) @@
    ("crystal_legs"               :> <<"c", "r", "y", "s", "t", "a", "l", "_", "l", "e", "g", "s">>) @@
    ("darklight"                  :> <<"d", "a", "r", "k", "l", "i", "g", "h", "t">>) @@
    ("dharoks"                    :> <<"d", "h", "a", "r", "o", "k", "s">>) @@
    ("dharoks_greataxe"           :> <<"d", "h", "a", "r", "o", "k", "s", "_", "g", "r", "e", "a", "t", "a", "x", "e">>) @@
    ("dharoks_helm"               :> <<"d", "h", "a", "r", "o", "k", "s", "_", "h", "e", "l", "m">>) @@
    ("dharoks_platebody"          :> <<"d", "h", "a", "r", "o", "k", "s", "_", "p", "l", "a", "t", "e", "b", "o", "d", "y">>) @@
    ("dharoks_platelegs"          :> <<"d", "h", "a", "r", "o", "k", "s", "_", "p", "l", "a", "t", "e", "l", "e", "g", "s">>) @@
    ("diamond_bolts_e"            :> <<"d", "i", "a", "m", "o", "n", "d", "_", "b", "o", "l", "t", "s", "_", "e">>) @@
    ("diamond_dragon_bolts_e"     :> <<"d", "i", "a", "m", "o", "n", "d", "_", "d", "r", "a", "g", "o", "n", "_", "b", "o", "l", "t", "s", "_", "e">>) @@
    ("dragon_hunter_crossbow"     :> <<"d", "r", "a", "g", "o", "n", "_", "h", "u", "n", "t", "e", "r", "_", "c", "r", "o", "s", "s", "b", "o", "w">>) @@
    ("dragon_hunter_lance"        :> <<"d", "r", "a", "g", "o", "n", "_", "h", "u", "n", "t", "e", "r", "_", "l", "a", "n", "c", "e">>) @@
    ("dragonstone_bolts_e"        :> <<"d", "r", "a", "g", "o", "n", "s", "t", "o", "n", "e", "_", "b", "o", "l", "t", "s", "_", "e">>) @@
    ("dragonstone_dragon_bolts_e" :> <<"d", "r", "a", "g", "o", "n", "s", "t", "o", "n", "e", "_", "d", "r", "a", "g", "o", "n", "_", "b", "o", "l", "t", "s", "_", "e">>) @@
    ("elite_void_robe"            :> <<"e", "l", "i", "t", "e", "_", "v", "o", "i", "d", "_", "r", "o", "b", "e">>) @@
    ("elite_void_top"             :> <<"e", "l", "i", "t", "e", "_", "v", "o", "i", "d", "_", "t", "o", "p">>) @@
    ("emerald_bolts_e"            :> <<"e", "m", "e", "r", "a", "l", "d", "_", "b", "o", "l", "t", "s", "_", "e">>) @@
    ("emerald_dragon_bolts_e"     :> <<"e", "m", "e", "r", "a", "l", "d", "_", "d", "r", "a", "g", "o", "n", "_", "b", "o", "l", "t", "s", "_", "e">>) @@
    ("fang"                       :> <<"f", "a", "n", "g">>) @@
    ("guthans_chainskirt"         :> <<"g", "u", "t", "h", "a", "n", "s", "_", "c", "h", "a", "i", "n", "s", "k", "i", "r", "t">>) @@
    ("guthans_helm"               :> <<"g", "u", "t", "h", "a", "n", "s", "_", "h", "e", "l", "m">>) @@
    ("guthans_platebody"          :> <<"g", "u", "t", "h", "a", "n", "s", "_", "p", "l", "a", "t", "e", "b", "o", "d", "y">>) @@
    ("guthans_warspear"           :> <<"g", "u", "t", "h", "a", "n", "s", "_", "w", "a", "r", "s", "p", "e", "a", "r">>) @@
    ("helm"                       :> <<"h", "e", "l", "m">>) @@
    ("inquisitor_hauberk"         :> <<"i", "n", "q", "u", "i", "s", "i", "t", "o", "r", "_", "h", "a", "u", "b", "e", "r", "k">>) @@
    ("inquisitor_helm"            :> <<"i", "n", "q", "u", "i", "s", "i", "t", "o", "r", "_", "h", "e", "l", "m">>) @@
    ("inquisitor_plateskirt"      :> <<"i", "n", "q", "u", "i", "s", "i", "t", "o", "r", "_", "p", "l", "a", "t", "e", "s", "k", "i", "r", "t">>) @@
    ("karils_coif"                :> <<"k", "a", "r", "i", "l", "s", "_", "c", "o", "i", "f">>) @@
    ("karils_crossbow"            :> <<"k", "a", "r", "i", "l", "s", "_", "c", "r", "o", "s", "s", "b", "o", "w">>) @@
    ("karils_leatherskirt"        :> <<"k", "a", "r", "i", "l", "s", "_", "l", "e", "a", "t", "h", "e", "r", "s", "k", "i", "r", "t">>) @@
    ("karils_leathertop"          :> <<"k", "a", "r", "i", "l", "s", "_", "l", "e", "a", "t", "h", "e", "r", "t", "o", "p">>) @@
    ("keris"                      :> <<"k", "e", "r", "i", "s">>) @@
    ("keris_partisan"             :> <<"k", "e", "r", "i", "s", "_", "p", "a", "r", "t", "i", "s", "a", "n">>) @@
    ("leaf-bladed_battleaxe"      :> <<"l", "e", "a", "f", "-", "b", "l", "a", "d", "e", "d", "_", "b", "a", "t", "t", "l", "e", "a", "x", "e">>) @@
    ("leaf_bladed_battleaxe"      :> <<"l", "e", "a", "f", "_", "b", "l", "a", "d", "e", "d", "_", "b", "a", "t", "t", "l", "e", "a", "x", "e">>) @@
    ("magic"                      :> <<"m", "a", "g", "i", "c">>) @@
    ("obsidian"                   :> <<"o", "b", "s", "i", "d", "i", "a", "n">>) @@
    ("obsidian_helmet"            :> <<"o", "b", "s", "i", "d", "i", "a", "n", "_", "h", "e", "l", "m", "e", "t">>) @@
    ("obsidian_platebody"         :> <<"o", "b", "s", "i", "d", "i", "a", "n", "_", "p", "l", "a", "t", "e", "b", "o", "d", "y">>) @@
    ("obsidian_platelegs"         :> <<"o", "b", "s", "i", "d", "i", "a", "n", "_", "p", "l", "a", "t", "e", "l", "e", "g", "s">>) @@
    ("onyx_bolts_e"               :> <<"o", "n", "y", "x", "_", "b", "o", "l", "t", "s", "_", "e">>) @@
    ("onyx_dragon_bolts_e"        :> <<"o", "n", "y", "x", "_", "d", "r", "a", "g", "o", "n", "_", "b", "o", "l", "t", "s", "_", "e">>) @@
    ("opal_bolts_e"               :> <<"o", "p", "a", "l", "_", "b", "o", "l", "t", "s", "_", "e">>) @@
    ("opal_dragon_bolts_e"        :> <<"o", "p", "a", "l", "_", "d", "r", "a", "g", "o", "n", "_", "b", "o", "l", "t", "s", "_", "e">>) @@
    ("osmumten's_fang"            :> <<"o", "s", "m", "u", "m", "t", "e", "n", "'", "s", "_", "f", "a", "n", "g">>) @@
    ("osmumtens_fang"             :> <<"o", "s", "m", "u", "m", "t", "e", "n", "s", "_", "f", "a", "n", "g">>) @@
    ("pearl_bolts_e"              :> <<"p", "e", "a", "r", "l", "_", "b", "o", "l", "t", "s", "_", "e">>) @@
    ("pearl_dragon_bolts_e"       :> <<"p", "e", "a", "r", "l", "_", "d", "r", "a", "g", "o", "n", "_", "b", "o", "l", "t", "s", "_", "e">>) @@
    ("ranged"                     :> <<"r", "a", "n", "g", "e", "d">>) @@
    ("ruby_bolts_e"               :> <<"r", "u", "b", "y", "_", "b", "o", "l", "t", "s", "_", "e">>) @@
    ("ruby_dragon_bolts_e"        :> <<"r", "u", "b", "y", "_", "d", "r", "a", "g", "o", "n", "_", "b", "o", "l", "t", "s", "_", "e">>) @@
    ("salve_amulet"               :> <<"s", "a", "l", "v", "e", "_", "a", "m", "u", "l", "e", "t">>) @@
    ("salve_amulet_e"             :> <<"s", "a", "l", "v", "e", "_", "a", "m", "u", "l", "e", "t", "_", "e">>) @@
    ("salve_amulet_ei"            :> <<"s", "a", "l", "v", "e", "_", "a", "m", "u", "l", "e", "t", "_", "e", "i">>) @@
    ("scythe_of_vitur"            :> <<"s", "c", "y", "t", "h", "e", "_", "o", "f", "_", "v", "i", "t", "u", "r">>) @@
    ("silverlight"                :> <<"s", "i", "l", "v", "e", "r", "l", "i", "g", "h", "t">>) @@
    ("slash"                      :> <<"s", "l", "a", "s", "h">>) @@
    ("slayer_helmet"              :> <<"s", "l", "a", "y", "e", "r", "_", "h", "e", "l", "m", "e", "t">>) @@
    ("slayer_helmet_i"            :> <<"s", "l", "a", "y", "e", "r", "_", "h", "e", "l", "m", "e", "t", "_", "i">>) @@
    ("smoke_battlestaff"          :> <<"s", "m", "o", "k", "e", "_", "b", "a", "t", "t", "l", "e", "s", "t", "a", "f", "f">>) @@
    ("stab"                       :> <<"s", "t", "a", "b">>) @@
    ("thammarons_sceptre"         :> <<"t", "h", "a", "m", "m", "a", "r", "o", "n", "s", "_", "s", "c", "e", "p", "t", "r", "e">>) @@
    ("toktz"                      :> <<"t", "o", "k", "t", "z">>) @@
    ("torags_hammers"             :> <<"t", "o", "r", "a", "g", "s", "_", "h", "a", "m", "m", "e", "r", "s">>) @@
    ("torags_helm"                :> <<"t", "o", "r", "a", "g", "s", "_", "h", "e", "l", "m">>) @@
    ("torags_platebody"           :> <<"t", "o", "r", "a", "g", "s", "_", "p", "l", "a", "t", "e", "b", "o", "d", "y">>) @@
    ("torags_platelegs"           :> <<"t", "o", "r", "a", "g", "s", "_", "p", "l", "a", "t", "e", "l", "e", "g", "s">>) @@
    ("twisted_bow"                :> <<"t", "w", "i", "s", "t", "e", "d", "_", "b", "o", "w">>) @@
    ("tzhaar"                     :> <<"t", "z", "h", "a", "a", "r">>) @@
    ("veracs_brassard"            :> <<"v", "e", "r", "a", "c", "s", "_", "b", "r", "a", "s", "s", "a", "r", "d">>) @@
    ("veracs_flail"               :> <<"v", "e", "r", "a", "c", "s", "_", "f", "l", "a", "i", "l">>) @@
    ("veracs_helm"                :> <<"v", "e", "r", "a", "c", "s", "_", "h", "e", "l", "m">>) @@
    ("veracs_plateskirt"          :> <<"v", "e", "r", "a", "c", "s", "_", "p", "l", "a", "t", "e", "s", "k", "i", "r", "t">>) @@
    ("viggoras_chainmace"         :> <<"v", "i", "g", "g", "o", "r", "a", "s", "_", "c", "h", "a", "i", "n", "m", "a", "c", "e">>) @@
    ("void"                       :> <<"v", "o", "i", "d">>) @@
    ("void_knight_gloves"         :> <<"v", "o", "i", "d", "_", "k", "n", "i", "g", "h", "t", "_", "g", "l", "o", "v", "e", "s">>) @@
    ("void_knight_robe"           :> <<"v", "o", "i", "d", "_", "k", "n", "i", "g", "h", "t", "_", "r", "o", "b", "e">>) @@
    ("void_knight_top"            :> <<"v", "o", "i", "d", "_", "k", "n", "i", "g", "h", "t", "_", "t", "o", "p">>) @@
    ("void_mage_helm"             :> <<"v", "o", "i", "d", "_", "m", "a", "g", "e", "_", "h", "e", "l", "m">>) @@
    ("void_melee_helm"            :> <<"v", "o", "i", "d", "_", "m", "e", "l", "e", "e", "_", "h", "e", "l", "m">>) @@
    ("void_ranger_helm"           :> <<"v", "o", "i", "d", "_", "r", "a", "n", "g", "e", "r", "_", "h", "e", "l", "m">>)

UpperToLower ==
    ("A" :> "a") @@ ("B" :> "b") @@ ("C" :> "c") @@ ("D" :> "d") @@ ("E" :> "e") @@
    ("F" :> "f") @@ ("G" :> "g") @@ ("H" :> "h") @@ ("I" :> "i") @@ ("J" :> "j") @@
    ("K" :> "k") @@ ("L" :> "l") @@ ("M" :> "m") @@ ("N" :> "n") @@ ("O" :> "o") @@
    ("P" :> "p") @@ ("Q" :> "q") @@ ("R" :> "r") @@ ("S" :> "s") @@ ("T" :> "t") @@
    ("U" :> "u") @@ ("V" :> "v") @@ ("W" :> "w") @@ ("X" :> "x") @@ ("Y" :> "y") @@
    ("Z" :> "z")
\* str.lower(), on the characters.
Lower(cs) == [i \in DOMAIN cs |-> IF cs[i] \in DOMAIN UpperToLower THEN UpperToLower[cs[i]] ELSE cs[i]]
\* str.replace(old, new) for a one-character old and a one-character new.
Replace(cs, old, new) == [i \in DOMAIN cs |-> IF cs[i] = old THEN new ELSE cs[i]]
\* str.replace(old, "") for a one-character old.
Remove(cs, old) == SelectSeq(cs, LAMBDA c : c # old)
\* a in b, for strings: a is a contiguous part of b (the empty string is in every string).
In(a, b) ==
    \E k \in 0..(Len(b) - Len(a)) : \A j \in 1..Len(a) : b[k + j] = a[j]


\* ------------------------------------------------------------ effects.py
MELEE == "melee"
RANGED == "ranged"
MAGIC == "magic"
CombatStyle == {MELEE, RANGED, MAGIC}

\* EffectCondition(): the dataclass with its default field values.
EffectCondition ==
    [vs_attribute |-> None, on_slayer_task |-> FALSE, in_wilderness |-> FALSE,
     player_hp_below |-> None, target_size_min |-> None,
     using_attack_type |-> None, using_specific_weapon |-> None]

\* The normalisation is_met applies to the weapon name and to each pattern.
WeaponNormalized(name) == Remove(Replace(Lower(Chars[name]), "_", " "), "'")

\* Mutant: is_met comparing the attack types as they are written.
is_met_cased(self, facts) ==
    LET target_attributes ==
            IF IsNone(facts.target_attributes) THEN <<>> ELSE Get(facts.target_attributes)
    IN  /\ ~IsNone(self.vs_attribute) => Get(self.vs_attribute) \in Range(target_attributes)
        /\ ~(self.on_slayer_task /\ ~facts.on_slayer_task)
        /\ ~(self.in_wilderness /\ ~facts.in_wilderness)
        /\ ~IsNone(self.player_hp_below) =>
               ~RGeq(facts.player_hp_percent, Get(self.player_hp_below))
        /\ ~IsNone(self.target_size_min) => ~(facts.target_size < Get(self.target_size_min))
        /\ ~IsNone(self.using_attack_type) =>
               /\ ~IsNone(facts.attack_type)
               /\ Get(facts.attack_type) = Get(self.using_attack_type)
        /\ (~IsNone(self.using_specific_weapon) /\ ~IsNone(facts.weapon_name)) =>
               LET weapon_normalized == WeaponNormalized(Get(facts.weapon_name))
               IN \E i \in DOMAIN Get(self.using_specific_weapon) :
                      In(WeaponNormalized(Get(self.using_specific_weapon)[i]), weapon_normalized)

\* EffectCondition.is_met. facts holds the keyword arguments: target_attributes,
\* attack_type and weapon_name are Optional.
is_met(self, facts) ==
    LET target_attributes ==
            IF IsNone(facts.target_attributes) THEN <<>> ELSE Get(facts.target_attributes)
    IN  /\ ~IsNone(self.vs_attribute) => Get(self.vs_attribute) \in Range(target_attributes)
        /\ ~(self.on_slayer_task /\ ~facts.on_slayer_task)
        /\ ~(self.in_wilderness /\ ~facts.in_wilderness)
        /\ ~IsNone(self.player_hp_below) =>
               ~RGeq(facts.player_hp_percent, Get(self.player_hp_below))
        /\ ~IsNone(self.target_size_min) => ~(facts.target_size < Get(self.target_size_min))
        /\ ~IsNone(self.using_attack_type) =>
               /\ ~IsNone(facts.attack_type)
               /\ Lower(Chars[Get(facts.attack_type)]) = Lower(Chars[Get(self.using_attack_type)])
        /\ (~IsNone(self.using_specific_weapon) /\ ~IsNone(facts.weapon_name)) =>
               LET weapon_normalized == WeaponNormalized(Get(facts.weapon_name))
               IN \E i \in DOMAIN Get(self.using_specific_weapon) :
                      In(WeaponNormalized(Get(self.using_specific_weapon)[i]), weapon_normalized)

\* EffectModifier(): the dataclass with its default field values.
EffectModifier ==
    [accuracy_mult |-> ROne, damage_mult |-> ROne, double_accuracy_roll |-> FALSE,
     min_hit_percent |-> None, max_hit_percent |-> None, extra_hits |-> None,
     scales_with_target_magic |-> FALSE, scales_with_missing_hp |-> FALSE,
     ignores_defence |-> FALSE, ignores_prayer |-> FALSE]

\* Python's `a or b` on Optional[float]: a when a is neither None nor 0.0.
OrFloat(a, b) == IF ~IsNone(a) /\ Get(a) # RZero THEN a ELSE b
\* Python's `a or b` on Optional[List]: a when a is neither None nor empty.
OrList(a, b) == IF ~IsNone(a) /\ Len(Get(a)) > 0 THEN a ELSE b

\* EffectModifier.combine
combine(self, other) ==
    [accuracy_mult |-> RMul(self.accuracy_mult, other.accuracy_mult),
     damage_mult |-> RMul(self.damage_mult, other.damage_mult),
     double_accuracy_roll |-> self.double_accuracy_roll \/ other.double_accuracy_roll,
     min_hit_percent |-> OrFloat(self.min_hit_percent, other.min_hit_percent),
     max_hit_percent |-> OrFloat(self.max_hit_percent, other.max_hit_percent),
     extra_hits |-> OrList(self.extra_hits, other.extra_hits),
     scales_with_target_magic |-> self.scales_with_target_magic \/ other.scales_with_target_magic,
     scales_with_missing_hp |-> self.scales_with_missing_hp \/ other.scales_with_missing_hp,
     ignores_defence |-> self.ignores_defence \/ other.ignores_defence,
     ignores_prayer |-> self.ignores_prayer \/ other.ignores_prayer]

\* Mutant: an effect that applies whatever the combat style is.
AnyStyle(self, style) == TRUE

\* PassiveEffect.applies_to_style
applies_to_style(self, style) == style \in Range(self.combat_styles)

\* The fuzzy match of two names after lower(): either contains the other.
NamesMatch(a, b) ==
    LET x == Lower(Chars[a])
        y == Lower(Chars[b])
    IN In(x, y) \/ In(y, x)

\* PassiveEffect.is_from_item
is_from_item(self, item_name) ==
    \E i \in DOMAIN self.source_items : NamesMatch(self.source_items[i], item_name)

\* SetBonus.get_piece_count: the required items matched by some equipped item.
get_piece_count(self, equipped_items) ==
    Cardinality({i \in DOMAIN self.required_items :
                    \E j \in DOMAIN equipped_items :
                        NamesMatch(self.required_items[i], equipped_items[j])})

\* SetBonus.is_active
is_active(self, equipped_items) ==
    LET count == Cardinality({i \in DOMAIN self.required_items :
                                \E j \in DOMAIN equipped_items :
                                    NamesMatch(self.required_items[i], equipped_items[j])})
    IN count >= self.min_pieces

\* ------------------------------------------------------------ effect_definitions.py

VOID_MELEE ==
    [id |-> "void_melee", name |-> "Void Knight Melee", source_type |-> "set",
     source_items |-> <<"void_melee_helm", "void_knight_top", "void_knight_robe", "void_knight_gloves">>,
     combat_styles |-> <<MELEE>>,
     condition |-> EffectCondition,
     modifier |-> [EffectModifier EXCEPT !.accuracy_mult = Rat(11, 10), !.damage_mult = Rat(11, 10)],
     proc_chance |-> Rat(1, 1), stacking_group |-> Some("void_set"), stacking_priority |-> 2,
     additive_group |-> None]

VOID_RANGED ==
    [id |-> "void_ranged", name |-> "Void Knight Ranged", source_type |-> "set",
     source_items |-> <<"void_ranger_helm", "void_knight_top", "void_knight_robe", "void_knight_gloves">>,
     combat_styles |-> <<RANGED>>,
     condition |-> EffectCondition,
     modifier |-> [EffectModifier EXCEPT !.accuracy_mult = Rat(11, 10), !.damage_mult = Rat(11, 10)],
     proc_chance |-> Rat(1, 1), stacking_group |-> Some("void_set"), stacking_priority |-> 3,
     additive_group |-> None]

VOID_MAGIC ==
    [id |-> "void_magic", name |-> "Void Knight Magic", source_type |-> "set",
     source_items |-> <<"void_mage_helm", "void_knight_top", "void_knight_robe", "void_knight_gloves">>,
     combat_styles |-> <<MAGIC>>,
     condition |-> EffectCondition,
     modifier |-> [EffectModifier EXCEPT !.accuracy_mult = Rat(29, 20)],
     proc_chance |-> Rat(1, 1), stacking_group |-> Some("void_set"), stacking_priority |-> 1,
     additive_group |-> None]

ELITE_VOID_RANGED ==
    [id |-> "elite_void_ranged", name |-> "Elite Void Knight Ranged", source_type |-> "set",
     source_items |-> <<"void_ranger_helm", "elite_void_top", "elite_void_robe", "void_knight_gloves">>,
     combat_styles |-> <<RANGED>>,
     condition |-> EffectCondition,
     modifier |-> [EffectModifier EXCEPT !.accuracy_mult = Rat(11, 10), !.damage_mult = Rat(9, 8)],
     proc_chance |-> Rat(1, 1), stacking_group |-> Some("void_set"), stacking_priority |-> 5,
     additive_group |-> None]

ELITE_VOID_MAGIC ==
    [id |-> "elite_void_magic", name |-> "Elite Void Knight Magic", source_type |-> "set",
     source_items |-> <<"void_mage_helm", "elite_void_top", "elite_void_robe", "void_knight_gloves">>,
     combat_styles |-> <<MAGIC>>,
     condition |-> EffectCondition,
     modifier |-> [EffectModifier EXCEPT !.accuracy_mult = Rat(29, 20), !.damage_mult = Rat(41, 40)],
     proc_chance |-> Rat(1, 1), stacking_group |-> Some("void_set"), stacking_priority |-> 4,
     additive_group |-> None]

SLAYER_HELM ==
    [id |-> "slayer_helm", name |-> "Slayer Helmet", source_type |-> "armor",
     source_items |-> <<"slayer_helmet", "black_mask">>,
     combat_styles |-> <<MELEE>>,
     condition |-> [EffectCondition EXCEPT !.on_slayer_task = TRUE],
     modifier |-> [EffectModifier EXCEPT !.accuracy_mult = Rat(7, 6), !.damage_mult = Rat(7, 6)],
     proc_chance |-> Rat(1, 1), stacking_group |-> Some("slayer_undead"), stacking_priority |-> 1,
     additive_group |-> None]

\* Slayer Helmet (i) as it would be with the priority of the plain helmet.
SLAYER_HELM_IMBUED_TIED ==
    [SLAYER_HELM EXCEPT !.id = "slayer_helm_i", !.name = "Slayer Helmet (i)",
        !.source_items = <<"slayer_helmet_i", "black_mask_i">>,
        !.combat_styles = <<MELEE, RANGED, MAGIC>>]

SLAYER_HELM_IMBUED ==
    [id |-> "slayer_helm_i", name |-> "Slayer Helmet (i)", source_type |-> "armor",
     source_items |-> <<"slayer_helmet_i", "black_mask_i">>,
     combat_styles |-> <<MELEE, RANGED, MAGIC>>,
     condition |-> [EffectCondition EXCEPT !.on_slayer_task = TRUE],
     modifier |-> [EffectModifier EXCEPT !.accuracy_mult = Rat(7, 6), !.damage_mult = Rat(7, 6)],
     proc_chance |-> Rat(1, 1), stacking_group |-> Some("slayer_undead"), stacking_priority |-> 2,
     additive_group |-> None]

SALVE_AMULET ==
    [id |-> "salve", name |-> "Salve Amulet", source_type |-> "amulet",
     source_items |-> <<"salve_amulet">>,
     combat_styles |-> <<MELEE>>,
     condition |-> [EffectCondition EXCEPT !.vs_attribute = Some("undead")],
     modifier |-> [EffectModifier EXCEPT !.accuracy_mult = Rat(7, 6), !.damage_mult = Rat(7, 6)],
     proc_chance |-> Rat(1, 1), stacking_group |-> Some("slayer_undead"), stacking_priority |-> 3,
     additive_group |-> None]

SALVE_AMULET_E ==
    [id |-> "salve_e", name |-> "Salve Amulet (e)", source_type |-> "amulet",
     source_items |-> <<"salve_amulet_e">>,
     combat_styles |-> <<MELEE>>,
     condition |-> [EffectCondition EXCEPT !.vs_attribute = Some("undead")],
     modifier |-> [EffectModifier EXCEPT !.accuracy_mult = Rat(6, 5), !.damage_mult = Rat(6, 5)],
     proc_chance |-> Rat(1, 1), stacking_group |-> Some("slayer_undead"), stacking_priority |-> 4,
     additive_group |-> None]

\* Salve Amulet (ei) as it would be outside every stacking group.
SALVE_AMULET_EI_UNGROUPED ==
    [SALVE_AMULET_E EXCEPT !.id = "salve_ei", !.name = "Salve Amulet (ei)",
        !.source_items = <<"salve_amulet_ei">>, !.combat_styles = <<MELEE, RANGED, MAGIC>>,
        !.stacking_group = None, !.stacking_priority = 0]

SALVE_AMULET_EI ==
    [id |-> "salve_ei", name |-> "Salve Amulet (ei)", source_type |-> "amulet",
     source_items |-> <<"salve_amulet_ei">>,
     combat_styles |-> <<MELEE, RANGED, MAGIC>>,
     condition |-> [EffectCondition EXCEPT !.vs_attribute = Some("undead")],
     modifier |-> [EffectModifier EXCEPT !.accuracy_mult = Rat(6, 5), !.damage_mult = Rat(6, 5)],
     proc_chance |-> Rat(1, 1), stacking_group |-> Some("slayer_undead"), stacking_priority |-> 5,
     additive_group |-> None]

DRAGON_HUNTER_LANCE ==
    [id |-> "dh_lance", name |-> "Dragon Hunter Lance", source_type |-> "weapon",
     source_items |-> <<"dragon_hunter_lance">>,
     combat_styles |-> <<MELEE>>,
     condition |-> [EffectCondition EXCEPT !.vs_attribute = Some("dragon")],
     modifier |-> [EffectModifier EXCEPT !.accuracy_mult = Rat(6, 5), !.damage_mult = Rat(6, 5)],
     proc_chance |-> Rat(1, 1), stacking_group |-> None, stacking_priority |-> 0,
     additive_group |-> None]

DRAGON_HUNTER_CROSSBOW ==
    [id |-> "dhcb", name |-> "Dragon Hunter Crossbow", source_type |-> "weapon",
     source_items |-> <<"dragon_hunter_crossbow">>,
     combat_styles |-> <<RANGED>>,
     condition |-> [EffectCondition EXCEPT !.vs_attribute = Some("dragon")],
     modifier |-> [EffectModifier EXCEPT !.accuracy_mult = Rat(13, 10), !.damage_mult = Rat(5, 4)],
     proc_chance |-> Rat(1, 1), stacking_group |-> None, stacking_priority |-> 0,
     additive_group |-> None]

INQUISITOR_SET ==
    [id |-> "inquisitor", name |-> "Inquisitor's Armour", source_type |-> "set",
     source_items |-> <<"inquisitor_helm", "inquisitor_hauberk", "inquisitor_plateskirt">>,
     combat_styles |-> <<MELEE>>,
     condition |-> [EffectCondition EXCEPT !.using_attack_type = Some("crush")],
     modifier |-> [EffectModifier EXCEPT !.accuracy_mult = Rat(41, 40), !.damage_mult = Rat(41, 40)],
     proc_chance |-> Rat(1, 1), stacking_group |-> None, stacking_priority |-> 0,
     additive_group |-> None]

OBSIDIAN_SET ==
    [id |-> "obsidian", name |-> "Obsidian Armour Set", source_type |-> "set",
     source_items |-> <<"obsidian_helmet", "obsidian_platebody", "obsidian_platelegs">>,
     combat_styles |-> <<MELEE>>,
     condition |-> [EffectCondition EXCEPT !.using_specific_weapon = Some(<<"toktz", "tzhaar", "obsidian">>)],
     modifier |-> [EffectModifier EXCEPT !.accuracy_mult = Rat(11, 10), !.damage_mult = Rat(11, 10)],
     proc_chance |-> Rat(1, 1), stacking_group |-> None, stacking_priority |-> 0,
     additive_group |-> None]

OSMUMTENS_FANG ==
    [id |-> "fang", name |-> "Osmumten's Fang", source_type |-> "weapon",
     source_items |-> <<"osmumtens_fang", "osmumten's_fang">>,
     combat_styles |-> <<MELEE>>,
     condition |-> EffectCondition,
     modifier |-> [EffectModifier EXCEPT !.double_accuracy_roll = TRUE, !.min_hit_percent = Some(Rat(3, 20)), !.max_hit_percent = Some(Rat(17, 20))],
     proc_chance |-> Rat(1, 1), stacking_group |-> None, stacking_priority |-> 0,
     additive_group |-> None]

SCYTHE_OF_VITUR ==
    [id |-> "scythe", name |-> "Scythe of Vitur", source_type |-> "weapon",
     source_items |-> <<"scythe_of_vitur">>,
     combat_styles |-> <<MELEE>>,
     condition |-> [EffectCondition EXCEPT !.target_size_min = Some(1)],
     modifier |-> [EffectModifier EXCEPT !.extra_hits = Some(<<Rat(1, 2), Rat(1, 4)>>)],
     proc_chance |-> Rat(1, 1), stacking_group |-> None, stacking_priority |-> 0,
     additive_group |-> None]

TWISTED_BOW ==
    [id |-> "tbow", name |-> "Twisted Bow", source_type |-> "weapon",
     source_items |-> <<"twisted_bow">>,
     combat_styles |-> <<RANGED>>,
     condition |-> EffectCondition,
     modifier |-> [EffectModifier EXCEPT !.scales_with_target_magic = TRUE],
     proc_chance |-> Rat(1, 1), stacking_group |-> None, stacking_priority |-> 0,
     additive_group |-> None]

KERIS_PARTISAN ==
    [id |-> "keris", name |-> "Keris Partisan", source_type |-> "weapon",
     source_items |-> <<"keris_partisan", "keris">>,
     combat_styles |-> <<MELEE>>,
     condition |-> [EffectCondition EXCEPT !.vs_attribute = Some("kalphite")],
     modifier |-> [EffectModifier EXCEPT !.damage_mult = Rat(133, 100)],
     proc_chance |-> Rat(1, 1), stacking_group |-> None, stacking_priority |-> 0,
     additive_group |-> None]

KERIS_TRIPLE_PROC ==
    [id |-> "keris_triple", name |-> "Keris Partisan (Triple)", source_type |-> "weapon",
     source_items |-> <<"keris_partisan", "keris">>,
     combat_styles |-> <<MELEE>>,
     condition |-> [EffectCondition EXCEPT !.vs_attribute = Some("kalphite")],
     modifier |-> [EffectModifier EXCEPT !.damage_mult = Rat(3, 1)],
     proc_chance |-> Rat(1, 51), stacking_group |-> None, stacking_priority |-> 0,
     additive_group |-> None]

ARCLIGHT ==
    [id |-> "arclight", name |-> "Arclight", source_type |-> "weapon",
     source_items |-> <<"arclight">>,
     combat_styles |-> <<MELEE>>,
     condition |-> [EffectCondition EXCEPT !.vs_attribute = Some("demon")],
     modifier |-> [EffectModifier EXCEPT !.accuracy_mult = Rat(17, 10), !.damage_mult = Rat(17, 10)],
     proc_chance |-> Rat(1, 1), stacking_group |-> None, stacking_priority |-> 0,
     additive_group |-> None]

DARKLIGHT ==
    [id |-> "darklight", name |-> "Darklight", source_type |-> "weapon",
     source_items |-> <<"darklight">>,
     combat_styles |-> <<MELEE>>,
     condition |-> [EffectCondition EXCEPT !.vs_attribute = Some("demon")],
     modifier |-> [EffectModifier EXCEPT !.accuracy_mult = Rat(7, 4), !.damage_mult = Rat(7, 4)],
     proc_chance |-> Rat(1, 1), stacking_group |-> None, stacking_priority |-> 0,
     additive_group |-> None]

SILVERLIGHT ==
    [id |-> "silverlight", name |-> "Silverlight", source_type |-> "weapon",
     source_items |-> <<"silverlight">>,
     combat_styles |-> <<MELEE>>,
     condition |-> [EffectCondition EXCEPT !.vs_attribute = Some("demon")],
     modifier |-> [EffectModifier EXCEPT !.accuracy_mult = Rat(8, 5), !.damage_mult = Rat(8, 5)],
     proc_chance |-> Rat(1, 1), stacking_group |-> None, stacking_priority |-> 0,
     additive_group |-> None]

LEAF_BLADED_AXE ==
    [id |-> "leaf_axe", name |-> "Leaf-bladed Battleaxe", source_type |-> "weapon",
     source_items |-> <<"leaf-bladed_battleaxe", "leaf_bladed_battleaxe">>,
     combat_styles |-> <<MELEE>>,
     condition |-> [EffectCondition EXCEPT !.vs_attribute = Some("leafy")],
     modifier |-> [EffectModifier EXCEPT !.damage_mult = Rat(47, 40)],
     proc_chance |-> Rat(1, 1), stacking_group |-> None, stacking_priority |-> 0,
     additive_group |-> None]

DHAROKS_SET_EFFECT ==
    [id |-> "dharoks", name |-> "Dharok's Set Effect", source_type |-> "set",
     source_items |-> <<"dharoks_greataxe", "dharoks_helm", "dharoks_platebody", "dharoks_platelegs">>,
     combat_styles |-> <<MELEE>>,
     condition |-> EffectCondition,
     modifier |-> [EffectModifier EXCEPT !.scales_with_missing_hp = TRUE],
     proc_chance |-> Rat(1, 1), stacking_group |-> None, stacking_priority |-> 0,
     additive_group |-> None]

VERACS_SET_EFFECT ==
    [id |-> "veracs", name |-> "Verac's Set Effect", source_type |-> "set",
     source_items |-> <<"veracs_flail", "veracs_helm", "veracs_brassard", "veracs_plateskirt">>,
     combat_styles |-> <<MELEE>>,
     condition |-> EffectCondition,
     modifier |-> [EffectModifier EXCEPT !.ignores_defence = TRUE, !.ignores_prayer = TRUE],
     proc_chance |-> Rat(1, 4), stacking_group |-> None, stacking_priority |-> 0,
     additive_group |-> None]

GUTHANS_SET_EFFECT ==
    [id |-> "guthans", name |-> "Guthan's Set Effect", source_type |-> "set",
     source_items |-> <<"guthans_warspear", "guthans_helm", "guthans_platebody", "guthans_chainskirt">>,
     combat_styles |-> <<MELEE>>,
     condition |-> EffectCondition,
     modifier |-> EffectModifier,
     proc_chance |-> Rat(1, 4), stacking_group |-> None, stacking_priority |-> 0,
     additive_group |-> None]

KARILS_SET_EFFECT ==
    [id |-> "karils", name |-> "Karil's Set Effect", source_type |-> "set",
     source_items |-> <<"karils_crossbow", "karils_coif", "karils_leathertop", "karils_leatherskirt">>,
     combat_styles |-> <<RANGED>>,
     condition |-> EffectCondition,
     modifier |-> EffectModifier,
     proc_chance |-> Rat(1, 4), stacking_group |-> None, stacking_priority |-> 0,
     additive_group |-> None]

AHRIMS_SET_EFFECT ==
    [id |-> "ahrims", name |-> "Ahrim's Set Effect", source_type |-> "set",
     source_items |-> <<"ahrims_staff", "ahrims_hood", "ahrims_robetop", "ahrims_robeskirt">>,
     combat_styles |-> <<MAGIC>>,
     condition |-> EffectCondition,
     modifier |-> EffectModifier,
     proc_chance |-> Rat(1, 4), stacking_group |-> None, stacking_priority |-> 0,
     additive_group |-> None]

TORAGS_SET_EFFECT ==
    [id |-> "torags", name |-> "Torag's Set Effect", source_type |-> "set",
     source_items |-> <<"torags_hammers", "torags_helm", "torags_platebody", "torags_platelegs">>,
     combat_styles |-> <<MELEE>>,
     condition |-> EffectCondition,
     modifier |-> EffectModifier,
     proc_chance |-> Rat(1, 4), stacking_group |-> None, stacking_priority |-> 0,
     additive_group |-> None]

RUBY_BOLTS_E ==
    [id |-> "ruby_bolts_e", name |-> "Ruby bolts (e)", source_type |-> "ammo",
     source_items |-> <<"ruby_bolts_e", "ruby_dragon_bolts_e">>,
     combat_styles |-> <<RANGED>>,
     condition |-> EffectCondition,
     modifier |-> EffectModifier,
     proc_chance |-> Rat(3, 50), stacking_group |-> None, stacking_priority |-> 0,
     additive_group |-> None]

DIAMOND_BOLTS_E ==
    [id |-> "diamond_bolts_e", name |-> "Diamond bolts (e)", source_type |-> "ammo",
     source_items |-> <<"diamond_bolts_e", "diamond_dragon_bolts_e">>,
     combat_styles |-> <<RANGED>>,
     condition |-> EffectCondition,
     modifier |-> [EffectModifier EXCEPT !.ignores_defence = TRUE],
     proc_chance |-> Rat(1, 10), stacking_group |-> None, stacking_priority |-> 0,
     additive_group |-> None]

DRAGONSTONE_BOLTS_E ==
    [id |-> "dragonstone_bolts_e", name |-> "Dragonstone bolts (e)", source_type |-> "ammo",
     source_items |-> <<"dragonstone_bolts_e", "dragonstone_dragon_bolts_e">>,
     combat_styles |-> <<RANGED>>,
     condition |-> EffectCondition,
     modifier |-> EffectModifier,
     proc_chance |-> Rat(3, 50), stacking_group |-> None, stacking_priority |-> 0,
     additive_group |-> None]

ONYX_BOLTS_E ==
    [id |-> "onyx_bolts_e", name |-> "Onyx bolts (e)", source_type |-> "ammo",
     source_items |-> <<"onyx_bolts_e", "onyx_dragon_bolts_e">>,
     combat_styles |-> <<RANGED>>,
     condition |-> EffectCondition,
     modifier |-> [EffectModifier EXCEPT !.damage_mult = Rat(6, 5)],
     proc_chance |-> Rat(11, 100), stacking_group |-> None, stacking_priority |-> 0,
     additive_group |-> None]

OPAL_BOLTS_E ==
    [id |-> "opal_bolts_e", name |-> "Opal bolts (e)", source_type |-> "ammo",
     source_items |-> <<"opal_bolts_e", "opal_dragon_bolts_e">>,
     combat_styles |-> <<RANGED>>,
     condition |-> EffectCondition,
     modifier |-> EffectModifier,
     proc_chance |-> Rat(1, 20), stacking_group |-> None, stacking_priority |-> 0,
     additive_group |-> None]

BERSERKER_NECKLACE ==
    [id |-> "berserker_neck", name |-> "Berserker Necklace", source_type |-> "amulet",
     source_items |-> <<"berserker_necklace">>,
     combat_styles |-> <<MELEE>>,
     condition |-> [EffectCondition EXCEPT !.using_specific_weapon = Some(<<"toktz", "tzhaar", "obsidian">>)],
     modifier |-> [EffectModifier EXCEPT !.damage_mult = Rat(6, 5)],
     proc_chance |-> Rat(1, 1), stacking_group |-> None, stacking_priority |-> 0,
     additive_group |-> None]

CRYSTAL_HELM ==
    [id |-> "crystal_helm", name |-> "Crystal Helm", source_type |-> "armor",
     source_items |-> <<"crystal_helm">>,
     combat_styles |-> <<RANGED>>,
     condition |-> [EffectCondition EXCEPT !.using_specific_weapon = Some(<<"crystal_bow", "bow_of_faerdhinen">>)],
     modifier |-> [EffectModifier EXCEPT !.accuracy_mult = Rat(21, 20), !.damage_mult = Rat(41, 40)],
     proc_chance |-> Rat(1, 1), stacking_group |-> None, stacking_priority |-> 0,
     additive_group |-> Some("crystal_armor")]

CRYSTAL_BODY ==
    [id |-> "crystal_body", name |-> "Crystal Body", source_type |-> "armor",
     source_items |-> <<"crystal_body">>,
     combat_styles |-> <<RANGED>>,
     condition |-> [EffectCondition EXCEPT !.using_specific_weapon = Some(<<"crystal_bow", "bow_of_faerdhinen">>)],
     modifier |-> [EffectModifier EXCEPT !.accuracy_mult = Rat(23, 20), !.damage_mult = Rat(43, 40)],
     proc_chance |-> Rat(1, 1), stacking_group |-> None, stacking_priority |-> 0,
     additive_group |-> Some("crystal_armor")]

CRYSTAL_LEGS ==
    [id |-> "crystal_legs", name |-> "Crystal Legs", source_type |-> "armor",
     source_items |-> <<"crystal_legs">>,
     combat_styles |-> <<RANGED>>,
     condition |-> [EffectCondition EXCEPT !.using_specific_weapon = Some(<<"crystal_bow", "bow_of_faerdhinen">>)],
     modifier |-> [EffectModifier EXCEPT !.accuracy_mult = Rat(11, 10), !.damage_mult = Rat(21, 20)],
     proc_chance |-> Rat(1, 1), stacking_group |-> None, stacking_priority |-> 0,
     additive_group |-> Some("crystal_armor")]

SMOKE_BATTLESTAFF ==
    [id |-> "smoke_staff", name |-> "Smoke Battlestaff", source_type |-> "weapon",
     source_items |-> <<"smoke_battlestaff">>,
     combat_styles |-> <<MAGIC>>,
     condition |-> EffectCondition,
     modifier |-> [EffectModifier EXCEPT !.accuracy_mult = Rat(11, 10), !.damage_mult = Rat(11, 10)],
     proc_chance |-> Rat(1, 1), stacking_group |-> None, stacking_priority |-> 0,
     additive_group |-> None]

CRAWS_BOW ==
    [id |-> "craws_bow", name |-> "Craw's Bow", source_type |-> "weapon",
     source_items |-> <<"craws_bow">>,
     combat_styles |-> <<RANGED>>,
     condition |-> [EffectCondition EXCEPT !.in_wilderness = TRUE],
     modifier |-> [EffectModifier EXCEPT !.accuracy_mult = Rat(3, 2), !.damage_mult = Rat(3, 2)],
     proc_chance |-> Rat(1, 1), stacking_group |-> None, stacking_priority |-> 0,
     additive_group |-> None]

VIGGORAS_CHAINMACE ==
    [id |-> "viggoras", name |-> "Viggora's Chainmace", source_type |-> "weapon",
     source_items |-> <<"viggoras_chainmace">>,
     combat_styles |-> <<MELEE>>,
     condition |-> [EffectCondition EXCEPT !.in_wilderness = TRUE],
     modifier |-> [EffectModifier EXCEPT !.accuracy_mult = Rat(3, 2), !.damage_mult = Rat(3, 2)],
     proc_chance |-> Rat(1, 1), stacking_group |-> None, stacking_priority |-> 0,
     additive_group |-> None]

THAMMARONS_SCEPTRE ==
    [id |-> "thammarons", name |-> "Thammaron's Sceptre", source_type |-> "weapon",
     source_items |-> <<"thammarons_sceptre">>,
     combat_styles |-> <<MAGIC>>,
     condition |-> [EffectCondition EXCEPT !.in_wilderness = TRUE],
     modifier |-> [EffectModifier EXCEPT !.accuracy_mult = Rat(3, 2), !.damage_mult = Rat(3, 2)],
     proc_chance |-> Rat(1, 1), stacking_group |-> None, stacking_priority |-> 0,
     additive_group |-> None]

AMULET_OF_AVARICE ==
    [id |-> "avarice", name |-> "Amulet of Avarice", source_type |-> "amulet",
     source_items |-> <<"amulet_of_avarice">>,
     combat_styles |-> <<MELEE, RANGED, MAGIC>>,
     condition |-> [EffectCondition EXCEPT !.vs_attribute = Some("revenant"), !.in_wilderness = TRUE],
     modifier |-> [EffectModifier EXCEPT !.accuracy_mult = Rat(6, 5), !.damage_mult = Rat(6, 5)],
     proc_chance |-> Rat(1, 1), stacking_group |-> None, stacking_priority |-> 0,
     additive_group |-> None]

PEARL_BOLTS_E ==
    [id |-> "pearl_bolts_e", name |-> "Pearl bolts (e)", source_type |-> "ammo",
     source_items |-> <<"pearl_bolts_e", "pearl_dragon_bolts_e">>,
     combat_styles |-> <<RANGED>>,
     condition |-> EffectCondition,
     modifier |-> EffectModifier,
     proc_chance |-> Rat(3, 50), stacking_group |-> None, stacking_priority |-> 0,
     additive_group |-> None]

EMERALD_BOLTS_E ==
    [id |-> "emerald_bolts_e", name |-> "Emerald bolts (e)", source_type |-> "ammo",
     source_items |-> <<"emerald_bolts_e", "emerald_dragon_bolts_e">>,
     combat_styles |-> <<RANGED>>,
     condition |-> EffectCondition,
     modifier |-> EffectModifier,
     proc_chance |-> Rat(11, 20), stacking_group |-> None, stacking_priority |-> 0,
     additive_group |-> None]

DHAROKS_SET ==
    [id |-> "dharoks_set", name |-> "Dharok's Set",
     required_items |-> <<"dharoks_greataxe", "dharoks_helm", "dharoks_platebody", "dharoks_platelegs">>,
     min_pieces |-> 4, effect |-> DHAROKS_SET_EFFECT]

VERACS_SET ==
    [id |-> "veracs_set", name |-> "Verac's Set",
     required_items |-> <<"veracs_flail", "veracs_helm", "veracs_brassard", "veracs_plateskirt">>,
     min_pieces |-> 4, effect |-> VERACS_SET_EFFECT]

GUTHANS_SET ==
    [id |-> "guthans_set", name |-> "Guthan's Set",
     required_items |-> <<"guthans_warspear", "guthans_helm", "guthans_platebody", "guthans_chainskirt">>,
     min_pieces |-> 4, effect |-> GUTHANS_SET_EFFECT]

KARILS_SET ==
    [id |-> "karils_set", name |-> "Karil's Set",
     required_items |-> <<"karils_crossbow", "karils_coif", "karils_leathertop", "karils_leatherskirt">>,
     min_pieces |-> 4, effect |-> KARILS_SET_EFFECT]

AHRIMS_SET ==
    [id |-> "ahrims_set", name |-> "Ahrim's Set",
     required_items |-> <<"ahrims_staff", "ahrims_hood", "ahrims_robetop", "ahrims_robeskirt">>,
     min_pieces |-> 4, effect |-> AHRIMS_SET_EFFECT]

TORAGS_SET ==
    [id |-> "torags_set", name |-> "Torag's Set",
     required_items |-> <<"torags_hammers", "torags_helm", "torags_platebody", "torags_platelegs">>,
     min_pieces |-> 4, effect |-> TORAGS_SET_EFFECT]

VOID_MELEE_SET ==
    [id |-> "void_melee_set", name |-> "Void Knight (Melee)",
     required_items |-> <<"void_melee_helm", "void_knight_top", "void_knight_robe", "void_knight_gloves">>,
     min_pieces |-> 4, effect |-> VOID_MELEE]

VOID_RANGED_SET ==
    [id |-> "void_ranged_set", name |-> "Void Knight (Ranged)",
     required_items |-> <<"void_ranger_helm", "void_knight_top", "void_knight_robe", "void_knight_gloves">>,
     min_pieces |-> 4, effect |-> VOID_RANGED]

VOID_MAGIC_SET ==
    [id |-> "void_magic_set", name |-> "Void Knight (Magic)",
     required_items |-> <<"void_mage_helm", "void_knight_top", "void_knight_robe", "void_knight_gloves">>,
     min_pieces |-> 4, effect |-> VOID_MAGIC]

ELITE_VOID_RANGED_SET ==
    [id |-> "elite_void_ranged_set", name |-> "Elite Void Knight (Ranged)",
     required_items |-> <<"void_ranger_helm", "elite_void_top", "elite_void_robe", "void_knight_gloves">>,
     min_pieces |-> 4, effect |-> ELITE_VOID_RANGED]

ELITE_VOID_MAGIC_SET ==
    [id |-> "elite_void_magic_set", name |-> "Elite Void Knight (Magic)",
     required_items |-> <<"void_mage_helm", "elite_void_top", "elite_void_robe", "void_knight_gloves">>,
     min_pieces |-> 4, effect |-> ELITE_VOID_MAGIC]

INQUISITOR_SET_BONUS ==
    [id |-> "inquisitor_set", name |-> "Inquisitor's Armour",
     required_items |-> <<"inquisitor_helm", "inquisitor_hauberk", "inquisitor_plateskirt">>,
     min_pieces |-> 3, effect |-> INQUISITOR_SET]

OBSIDIAN_SET_BONUS ==
    [id |-> "obsidian_set", name |-> "Obsidian Armour",
     required_items |-> <<"obsidian_helmet", "obsidian_platebody", "obsidian_platelegs">>,
     min_pieces |-> 3, effect |-> OBSIDIAN_SET]

\* The dictionary in insertion order, as <<key, value>> pairs. The literal
\* repeats the bolt keys; a repeated key keeps its first position.
ALL_EFFECTS ==
 << <<"void_melee", VOID_MELEE>>,
    <<"void_ranged", VOID_RANGED>>,
    <<"void_magic", VOID_MAGIC>>,
    <<"elite_void_ranged", ELITE_VOID_RANGED>>,
    <<"elite_void_magic", ELITE_VOID_MAGIC>>,
    <<"slayer_helm", SLAYER_HELM>>,
    <<"slayer_helm_i", SLAYER_HELM_IMBUED>>,
    <<"salve", SALVE_AMULET>>,
    <<"salve_e", SALVE_AMULET_E>>,
    <<"salve_ei", SALVE_AMULET_EI>>,
    <<"dh_lance", DRAGON_HUNTER_LANCE>>,
    <<"dhcb", DRAGON_HUNTER_CROSSBOW>>,
    <<"inquisitor", INQUISITOR_SET>>,
    <<"obsidian", OBSIDIAN_SET>>,
    <<"fang", OSMUMTENS_FANG>>,
    <<"scythe", SCYTHE_OF_VITUR>>,
    <<"tbow", TWISTED_BOW>>,
    <<"keris", KERIS_PARTISAN>>,
    <<"keris_triple", KERIS_TRIPLE_PROC>>,
    <<"arclight", ARCLIGHT>>,
    <<"darklight", DARKLIGHT>>,
    <<"silverlight", SILVERLIGHT>>,
    <<"leaf_axe", LEAF_BLADED_AXE>>,
    <<"dharoks", DHAROKS_SET_EFFECT>>,
    <<"veracs", VERACS_SET_EFFECT>>,
    <<"guthans", GUTHANS_SET_EFFECT>>,
    <<"karils", KARILS_SET_EFFECT>>,
    <<"ahrims", AHRIMS_SET_EFFECT>>,
    <<"torags", TORAGS_SET_EFFECT>>,
    <<"ruby_bolts_e", RUBY_BOLTS_E>>,
    <<"diamond_bolts_e", DIAMOND_BOLTS_E>>,
    <<"dragonstone_bolts_e", DRAGONSTONE_BOLTS_E>>,
    <<"onyx_bolts_e", ONYX_BOLTS_E>>,
    <<"opal_bolts_e", OPAL_BOLTS_E>>,
    <<"berserker_neck", BERSERKER_NECKLACE>>,
    <<"crystal_helm", CRYSTAL_HELM>>,
    <<"crystal_body", CRYSTAL_BODY>>,
    <<"crystal_legs", CRYSTAL_LEGS>>,
    <<"smoke_staff", SMOKE_BATTLESTAFF>>,
    <<"craws_bow", CRAWS_BOW>>,
    <<"viggoras", VIGGORAS_CHAINMACE>>,
    <<"thammarons", THAMMARONS_SCEPTRE>>,
    <<"avarice", AMULET_OF_AVARICE>>,
    <<"pearl_bolts_e", PEARL_BOLTS_E>>,
    <<"emerald_bolts_e", EMERALD_BOLTS_E>> >>

ALL_SET_BONUSES ==
 << <<"dharoks_set", DHAROKS_SET>>,
    <<"veracs_set", VERACS_SET>>,
    <<"guthans_set", GUTHANS_SET>>,
    <<"karils_set", KARILS_SET>>,
    <<"ahrims_set", AHRIMS_SET>>,
    <<"torags_set", TORAGS_SET>>,
    <<"void_melee_set", VOID_MELEE_SET>>,
    <<"void_ranged_set", VOID_RANGED_SET>>,
    <<"void_magic_set", VOID_MAGIC_SET>>,
    <<"elite_void_ranged_set", ELITE_VOID_RANGED_SET>>,
    <<"elite_void_magic_set", ELITE_VOID_MAGIC_SET>>,
    <<"inquisitor_set", INQUISITOR_SET_BONUS>>,
    <<"obsidian_set", OBSIDIAN_SET_BONUS>> >>

WEAPON_EFFECTS ==
 << <<"osmumtens_fang", OSMUMTENS_FANG>>,
    <<"osmumten's_fang", OSMUMTENS_FANG>>,
    <<"scythe_of_vitur", SCYTHE_OF_VITUR>>,
    <<"twisted_bow", TWISTED_BOW>>,
    <<"dragon_hunter_lance", DRAGON_HUNTER_LANCE>>,
    <<"dragon_hunter_crossbow", DRAGON_HUNTER_CROSSBOW>>,
    <<"keris_partisan", KERIS_PARTISAN>>,
    <<"arclight", ARCLIGHT>>,
    <<"darklight", DARKLIGHT>>,
    <<"silverlight", SILVERLIGHT>>,
    <<"leaf-bladed_battleaxe", LEAF_BLADED_AXE>>,
    <<"leaf_bladed_battleaxe", LEAF_BLADED_AXE>>,
    <<"smoke_battlestaff", SMOKE_BATTLESTAFF>>,
    <<"craws_bow", CRAWS_BOW>>,
    <<"viggoras_chainmace", VIGGORAS_CHAINMACE>>,
    <<"thammarons_sceptre", THAMMARONS_SCEPTRE>> >>

STACKING_GROUPS ==
 << <<"slayer_undead", <<"salve_ei", "salve_e", "salve", "slayer_helm_i", "slayer_helm">>>>,
    <<"void_set", <<"elite_void_ranged", "elite_void_mage", "void_ranged", "void_melee", "void_mage">>>> >>

\* ------------------------------------------------------------ effect_engine.py
\* CombatContext with the dataclass defaults for the optional fields.
CombatContext(combat_style, attack_type, weapon_name, equipped_items) ==
    [combat_style |-> combat_style, attack_type |-> attack_type,
     weapon_name |-> weapon_name, equipped_items |-> equipped_items,
     target |-> None, on_slayer_task |-> FALSE, in_wilderness |-> FALSE,
     player_hp_percent |-> ROne, player_max_hp |-> 99]

\* MonsterStats: the fields the engine and the melee calculation read, with
\* the dataclass defaults.
MonsterStats ==
    [defence_level |-> 1, stab_defence |-> 0, slash_defence |-> 0, crush_defence |-> 0,
     is_undead |-> FALSE, is_demon |-> FALSE, is_dragon |-> FALSE,
     is_kalphite |-> FALSE, is_leafy |-> FALSE, tile_size |-> 1]

get_target_attributes(target) ==
    IF IsNone(target) THEN <<>>
    ELSE (IF Get(target).is_undead THEN <<"undead">> ELSE <<>>)
         \o (IF Get(target).is_demon THEN <<"demon">> ELSE <<>>)
         \o (IF Get(target).is_dragon THEN <<"dragon">> ELSE <<>>)
         \o (IF Get(target).is_kalphite THEN <<"kalphite">> ELSE <<>>)
         \o (IF Get(target).is_leafy THEN <<"leafy">> ELSE <<>>)

\* Mutant: no target taken as a target of no size.
TargetSizeOfNothing(context) == IF IsNone(context.target) THEN 0 ELSE Get(context.target).tile_size

\* context.target.tile_size if context.target else 1
TargetSize(context) == IF IsNone(context.target) THEN 1 ELSE Get(context.target).tile_size

\* The keyword arguments the three detection passes hand to is_met.
Facts(context, weapon_name) ==
    [target_attributes |-> Some(get_target_attributes(context.target)),
     on_slayer_task |-> context.on_slayer_task,
     in_wilderness |-> context.in_wilderness,
     player_hp_percent |-> context.player_hp_percent,
     target_size |-> TargetSize(context),
     attack_type |-> Some(context.attack_type),
     weapon_name |-> Some(weapon_name)]

ActiveEffect(effect, source, effective_proc_chance) ==
    [effect |-> effect, source |-> source, effective_proc_chance |-> effective_proc_chance]

\* weapon_name.lower().replace(" ", "_").replace("'", "")
WeaponLower(weapon_name) == Remove(Replace(Lower(Chars[weapon_name]), " ", "_"), "'")

detect_weapon_effects(weapon_name, context) ==
    LET weapon_lower == WeaponLower(weapon_name)
        Hit(entry) ==
            /\ In(Chars[entry[1]], weapon_lower) \/ In(weapon_lower, Chars[entry[1]])
            /\ applies_to_style(entry[2], context.combat_style)
            /\ is_met(entry[2].condition, Facts(context, weapon_name))
        Emit(entry) == ActiveEffect(entry[2], weapon_name, entry[2].proc_chance)
    IN Map(SelectSeq(WEAPON_EFFECTS, Hit), Emit)

\* Mutant: the item pass without its `has_item` test.
detect_item_effects_unworn(equipped_items, context) ==
    LET weapon_effect_ids == {WEAPON_EFFECTS[i][2].id : i \in DOMAIN WEAPON_EFFECTS}
        set_effect_ids == {ALL_SET_BONUSES[i][2].effect.id : i \in DOMAIN ALL_SET_BONUSES}
        Hit(entry) ==
            /\ entry[1] \notin weapon_effect_ids
            /\ entry[1] \notin set_effect_ids
            /\ entry[2].source_type # "set"
            /\ applies_to_style(entry[2], context.combat_style)
            /\ is_met(entry[2].condition, Facts(context, context.weapon_name))
        Emit(entry) == ActiveEffect(entry[2], entry[2].name, entry[2].proc_chance)
    IN Map(SelectSeq(ALL_EFFECTS, Hit), Emit)

\* Mutant: the item pass without its `effect_id in weapon_effect_ids` test.
detect_item_effects_weapons(equipped_items, context) ==
    LET set_effect_ids == {ALL_SET_BONUSES[i][2].effect.id : i \in DOMAIN ALL_SET_BONUSES}
        Hit(entry) ==
            /\ entry[1] \notin set_effect_ids
            /\ entry[2].source_type # "set"
            /\ \E j \in DOMAIN equipped_items : is_from_item(entry[2], equipped_items[j])
            /\ applies_to_style(entry[2], context.combat_style)
            /\ is_met(entry[2].condition, Facts(context, context.weapon_name))
        Emit(entry) == ActiveEffect(entry[2], entry[2].name, entry[2].proc_chance)
    IN Map(SelectSeq(ALL_EFFECTS, Hit), Emit)

detect_item_effects(equipped_items, context) ==
    LET weapon_effect_ids == {WEAPON_EFFECTS[i][2].id : i \in DOMAIN WEAPON_EFFECTS}
        set_effect_ids == {ALL_SET_BONUSES[i][2].effect.id : i \in DOMAIN ALL_SET_BONUSES}
        Hit(entry) ==
            /\ entry[1] \notin weapon_effect_ids
            /\ entry[1] \notin set_effect_ids
            /\ entry[2].source_type # "set"
            /\ \E j \in DOMAIN equipped_items : is_from_item(entry[2], equipped_items[j])
            /\ applies_to_style(entry[2], context.combat_style)
            /\ is_met(entry[2].condition, Facts(context, context.weapon_name))
        Emit(entry) == ActiveEffect(entry[2], entry[2].name, entry[2].proc_chance)
    IN Map(SelectSeq(ALL_EFFECTS, Hit), Emit)

\* f"{set_bonus.name} ({pieces}/{len(set_bonus.required_items)})"
SetSource(set_bonus, pieces) ==
    set_bonus.name \o " (" \o ToString(pieces) \o "/"
        \o ToString(Len(set_bonus.required_items)) \o ")"

detect_set_bonuses(equipped_items, context) ==
    LET Hit(entry) ==
            /\ is_active(entry[2], equipped_items)
            /\ applies_to_style(entry[2].effect, context.combat_style)
            /\ is_met(entry[2].effect.condition, Facts(context, context.weapon_name))
        Emit(entry) ==
            ActiveEffect(entry[2].effect,
                         SetSource(entry[2], get_piece_count(entry[2], equipped_items)),
                         entry[2].effect.proc_chance)
    IN Map(SelectSeq(ALL_SET_BONUSES, Hit), Emit)

get_active_effects(context) ==
    detect_weapon_effects(context.weapon_name, context)
        \o detect_item_effects(context.equipped_items, context)
        \o detect_set_bonuses(context.equipped_items, context)

\* `if eff.stacking_group:` and `if eff.effect.additive_group:` - the truth
\* value of an Optional[str]: neither None nor "".
Truthy(s) == ~IsNone(s) /\ Get(s) # ""

RECURSIVE FirstSeen(_)
\* The distinct values of a sequence in the order of their first appearance:
\* the key order of a dict filled while iterating the sequence.
FirstSeen(s) ==
    IF Len(s) = 0 THEN <<>>
    ELSE LET front == FirstSeen(SubSeq(s, 1, Len(s) - 1))
         IN IF s[Len(s)] \in Range(front) THEN front ELSE Append(front, s[Len(s)])

RECURSIVE SortByPriorityAsc(_)
\* Mutant: the sort without reverse=True, which puts the lowest priority first.
SortByPriorityAsc(s) ==
    IF Len(s) = 0 THEN <<>>
    ELSE LET front == SortByPriorityAsc(SubSeq(s, 1, Len(s) - 1))
             x == s[Len(s)]
             keep == SelectSeq(front, LAMBDA e : e.effect.stacking_priority <= x.effect.stacking_priority)
             rest == SelectSeq(front, LAMBDA e : e.effect.stacking_priority > x.effect.stacking_priority)
         IN keep \o <<x>> \o rest

RECURSIVE SortByPriorityLastFirst(_)
\* Mutant: a descending sort that puts the later of two equal priorities first.
SortByPriorityLastFirst(s) ==
    IF Len(s) = 0 THEN <<>>
    ELSE LET front == SortByPriorityLastFirst(SubSeq(s, 1, Len(s) - 1))
             x == s[Len(s)]
             keep == SelectSeq(front, LAMBDA e : e.effect.stacking_priority > x.effect.stacking_priority)
             rest == SelectSeq(front, LAMBDA e : e.effect.stacking_priority <= x.effect.stacking_priority)
         IN keep \o <<x>> \o rest

\* Mutant: the effects of a stacking group left in the order they came in.
SortByArrival(group_effects) == group_effects

RECURSIVE SortByPriorityDesc(_)
\* list.sort(key=lambda e: e.stacking_priority, reverse=True): a stable sort,
\* elements of equal priority keep their order.
SortByPriorityDesc(s) ==
    IF Len(s) = 0 THEN <<>>
    ELSE LET front == SortByPriorityDesc(SubSeq(s, 1, Len(s) - 1))
             x == s[Len(s)]
             keep == SelectSeq(front, LAMBDA e : e.effect.stacking_priority >= x.effect.stacking_priority)
             rest == SelectSeq(front, LAMBDA e : e.effect.stacking_priority < x.effect.stacking_priority)
         IN keep \o <<x>> \o rest

\* Mutant: the sort applied to the caller's list itself.
resolve_stacking_in_place(effects) ==
    LET sorted == SortByPriorityDesc(effects)
        grouped == SelectSeq(sorted, LAMBDA eff : Truthy(eff.effect.stacking_group))
        no_group == SelectSeq(sorted, LAMBDA eff : ~Truthy(eff.effect.stacking_group))
        groups == FirstSeen(Map(grouped, LAMBDA eff : Get(eff.effect.stacking_group)))
        by_group == Map(groups, LAMBDA g :
                        <<g, SelectSeq(grouped, LAMBDA eff : Get(eff.effect.stacking_group) = g)>>)
    IN [effects |-> sorted, no_group |-> no_group, by_group |-> by_group,
        resolved |-> no_group \o Map(by_group, LAMBDA entry : entry[2][1])]

\* Mutant: no stacking rule, every input effect is kept.
resolve_stacking_all(effects) ==
    [effects |-> effects, no_group |-> effects, by_group |-> <<>>, resolved |-> effects]

\* The lists resolve_stacking holds when it returns: the caller's list, the
\* lists it built (no_group, and by_group after each group was sorted in
\* place) and the list it returns.
resolve_stacking_run(effects) ==
    LET grouped == SelectSeq(effects, LAMBDA eff : Truthy(eff.effect.stacking_group))
        no_group == SelectSeq(effects, LAMBDA eff : ~Truthy(eff.effect.stacking_group))
        groups == FirstSeen(Map(grouped, LAMBDA eff : Get(eff.effect.stacking_group)))
        by_group == Map(groups, LAMBDA g :
                        <<g, SortByPriorityDesc(
                                SelectSeq(grouped, LAMBDA eff : Get(eff.effect.stacking_group) = g))>>)
    IN [effects |-> effects, no_group |-> no_group, by_group |-> by_group,
        resolved |-> no_group \o Map(by_group, LAMBDA entry : entry[2][1])]

resolve_stacking(effects) == resolve_stacking_run(effects).resolved

\* Mutant: current_hp without its floor of one hit point.
calculate_dharok_unclamped(player_hp_percent, player_max_hp) ==
    LET current_hp == RInt(RMul(player_hp_percent, Rat(player_max_hp, 1)))
        missing_hp == player_max_hp - current_hp
    IN RAdd(ROne, Rat(missing_hp, player_max_hp))

calculate_dharok_multiplier(player_hp_percent, player_max_hp) ==
    LET current_hp == Max(1, RInt(RMul(player_hp_percent, Rat(player_max_hp, 1))))
        missing_hp == player_max_hp - current_hp
    IN RAdd(ROne, Rat(missing_hp, player_max_hp))

RECURSIVE CombineAll(_, _)
\* for m in modifiers: combined = combined.combine(m)
CombineAll(combined, modifiers) ==
    IF Len(modifiers) = 0 THEN combined
    ELSE CombineAll(combine(combined, Head(modifiers)), Tail(modifiers))

\* Mutant: the members of an additive group multiplied like any other effect.
GroupModifierProduct(group_effects) ==
    CombineAll(EffectModifier, Map(group_effects, LAMBDA eff : eff.effect.modifier))

\* The modifier resolve_modifiers builds for one additive group.
GroupModifier(group_effects) ==
    LET acc_bonus == RSum(Map(group_effects, LAMBDA eff : RSub(eff.effect.modifier.accuracy_mult, ROne)))
        dmg_bonus == RSum(Map(group_effects, LAMBDA eff : RSub(eff.effect.modifier.damage_mult, ROne)))
    IN [EffectModifier EXCEPT !.accuracy_mult = RAdd(ROne, acc_bonus),
                              !.damage_mult = RAdd(ROne, dmg_bonus)]

\* Mutant: every stacking-resolved effect taken as guaranteed.
AlwaysActiveAll(resolved_effects) == resolved_effects

\* The guaranteed effects of a stacking-resolved list.
AlwaysActive(resolved_effects) ==
    SelectSeq(resolved_effects, LAMBDA e : RGeq(e.effective_proc_chance, ROne))

\* The probabilistic effects of a stacking-resolved list.
ProcEffects(resolved_effects) ==
    SelectSeq(resolved_effects, LAMBDA e : RLt(e.effective_proc_chance, ROne))

\* The modifier resolve_modifiers has combined before the missing-HP scaling.
Combined(always_active) ==
    LET multiplicative_effects ==
            SelectSeq(always_active, LAMBDA eff : ~Truthy(eff.effect.additive_group))
        additive == SelectSeq(always_active, LAMBDA eff : Truthy(eff.effect.additive_group))
        groups == FirstSeen(Map(additive, LAMBDA eff : Get(eff.effect.additive_group)))
        group_modifiers ==
            Map(groups, LAMBDA g :
                GroupModifier(SelectSeq(additive, LAMBDA eff : Get(eff.effect.additive_group) = g)))
    IN CombineAll(CombineAll(EffectModifier,
                             Map(multiplicative_effects, LAMBDA eff : eff.effect.modifier)),
                  group_modifiers)

\* Mutant: the missing-HP factor multiplied in twice.
DharokScaledTwice(combined, context) ==
    IF combined.scales_with_missing_hp
    THEN LET dharok_mult == calculate_dharok_multiplier(context.player_hp_percent,
                                                        context.player_max_hp)
         IN [combined EXCEPT
                !.damage_mult = RMul(RMul(combined.damage_mult, dharok_mult), dharok_mult),
                !.scales_with_missing_hp = FALSE]
    ELSE combined

\* The `if combined.scales_with_missing_hp:` step of resolve_modifiers.
DharokScaled(combined, context) ==
    IF combined.scales_with_missing_hp
    THEN [combined EXCEPT
            !.damage_mult = RMul(combined.damage_mult,
                                 calculate_dharok_multiplier(context.player_hp_percent,
                                                             context.player_max_hp)),
            !.scales_with_missing_hp = FALSE]
    ELSE combined

resolve_modifiers(effects, context) ==
    LET resolved_effects == resolve_stacking(effects)
        always_active == AlwaysActive(resolved_effects)
        proc_effects == ProcEffects(resolved_effects)
        combined == DharokScaled(Combined(always_active), context)
    IN [accuracy_mult |-> combined.accuracy_mult,
        damage_mult |-> combined.damage_mult,
        double_accuracy_roll |-> combined.double_accuracy_roll,
        min_hit_percent |-> combined.min_hit_percent,
        max_hit_percent |-> combined.max_hit_percent,
        extra_hits |-> combined.extra_hits,
        scales_with_target_magic |-> combined.scales_with_target_magic,
        scales_with_missing_hp |-> combined.scales_with_missing_hp,
        ignores_defence |-> combined.ignores_defence,
        ignores_prayer |-> combined.ignores_prayer,
        active_effects |-> always_active,
        proc_effects |-> proc_effects]

\* EffectEngine.get_modifiers
get_modifiers(context) == resolve_modifiers(get_active_effects(context), context)


\* ------------------------------------------------------------ inputs
\* The longest equipped-item list a context is built with.
MaxItems == 4

\* Equipment the contexts are built from; a context wears a prefix of one of them.
Loadouts ==
    << <<"void_mage_helm", "void_knight_top", "void_knight_robe", "void_knight_gloves", "void_melee_helm">>,
       <<"dharoks_greataxe", "dharoks_helm", "dharoks_platebody", "dharoks_platelegs", "berserker_necklace">>,
       <<"crystal_helm", "crystal_body", "crystal_legs", "slayer_helmet_i", "salve_amulet_ei">>,
       <<"slayer_helmet_i", "salve_amulet", "keris_partisan", "amulet_of_avarice", "ruby_bolts_e">>,
       <<"slayer_helmet", "salve_amulet_e", "scythe_of_vitur", "black_mask_i", "onyx_bolts_e">>,
       <<"void", "dharoks", "helm", "keris", "fang">> >>

ItemLists ==
    {SubSeq(Loadouts[l], 1, k) : l \in DOMAIN Loadouts, k \in 0..MaxItems}

\* <<weapon name, attack type>>; "" is the name CombatCalculator passes without a weapon.
Weapons ==
    { <<"", "slash">>, <<"Abyssal whip", "slash">>, <<"Scythe of vitur", "slash">>,
      <<"Keris partisan", "stab">>, <<"crystal_bow", "ranged">>, <<"Osmumten's fang", "stab">> }

Targets ==
    { None, Some(MonsterStats), Some([MonsterStats EXCEPT !.is_undead = TRUE]),
      Some([MonsterStats EXCEPT !.is_kalphite = TRUE, !.tile_size = 3]) }

Contexts ==
    { [CombatContext(style, w[2], w[1], items) EXCEPT
          !.target = target, !.on_slayer_task = slayer, !.in_wilderness = wild] :
        style \in CombatStyle, w \in Weapons, items \in ItemLists, target \in Targets,
        slayer \in BOOLEAN, wild \in BOOLEAN }

\* Effects no catalog entry defines, for the lists handed to resolve_modifiers
\* directly: two additive groups besides crystal_armor, and a stacking group
\* whose members share a priority.
RING_A ==
    [VOID_MELEE EXCEPT !.id = "ring_a", !.name = "Ring A", !.source_type = "ring",
        !.source_items = <<>>, !.stacking_group = None, !.stacking_priority = 0,
        !.additive_group = Some("rings"),
        !.modifier = [EffectModifier EXCEPT !.accuracy_mult = Rat(21, 20), !.damage_mult = Rat(6, 5)]]

RING_B ==
    [RING_A EXCEPT !.id = "ring_b", !.name = "Ring B",
        !.modifier = [EffectModifier EXCEPT !.accuracy_mult = Rat(11, 10), !.ignores_prayer = TRUE]]

CAPE_A ==
    [RING_A EXCEPT !.id = "cape_a", !.name = "Cape A", !.source_type = "cape",
        !.additive_group = None, !.stacking_group = Some("capes"), !.stacking_priority = 1,
        !.modifier = [EffectModifier EXCEPT !.damage_mult = Rat(3, 2)]]

CAPE_B ==
    [CAPE_A EXCEPT !.id = "cape_b", !.name = "Cape B",
        !.modifier = [EffectModifier EXCEPT !.accuracy_mult = Rat(5, 4)]]

\* The longest effect list handed to resolve_modifiers directly.
MaxEffects == 3

\* The ActiveEffects those lists are made of; the last one carries an
\* effective proc chance below the one its definition gives.
EffectPool ==
    { ActiveEffect(e, e.name, e.proc_chance) :
        e \in {SLAYER_HELM, SLAYER_HELM_IMBUED, SALVE_AMULET_EI, CRYSTAL_HELM, CRYSTAL_BODY,
               CRYSTAL_LEGS, KERIS_TRIPLE_PROC, DHAROKS_SET_EFFECT, OSMUMTENS_FANG,
               RING_A, RING_B, CAPE_A, CAPE_B} }
    \cup { ActiveEffect(KERIS_PARTISAN, "Keris partisan", Rat(1, 2)) }

EffectLists == UNION { [1..n -> EffectPool] : n \in 0..MaxEffects }

\* ------------------------------------------------------------ state
VARIABLES
    context,    \* the CombatContext of the call
    pc,         \* "start", "detected" (get_active_effects returned), "resolved"
    detected,   \* what each detection pass returned
    active,     \* the caller's effect list: what get_active_effects returned
    stacked,    \* resolved_effects: what resolve_stacking returned
    modifiers,  \* Optional[ResolvedModifiers]: the result of the resolution
    first,      \* history: the first resolution and what was called after it
    setup,      \* Optional[CombatSetup]: the setup a CombatCalculator holds
    memo,       \* CombatCalculator._resolved_modifiers
    calls,      \* per thread: the position and the locals of its running call
    lists,      \* per call: the list `active` of get_active_effects
    args,       \* the arguments of a method called on a value object
    value,      \* Optional: what that method returned
    clock,      \* Optional[GameClock]: _tick, and the _queue and _counter of its ActionQueue
    executed,   \* history: the actions advance() has executed, each with the tick of the call
    kill        \* Optional: the frame of a running simulate_kill call

enginevars == <<context, pc, detected, active, stacked, modifiers, first>>
calcvars == <<setup, memo, calls, lists>>
purevars == <<args, value>>
clockvars == <<clock, executed>>
vars == <<context, pc, detected, active, stacked, modifiers, first, setup, memo, calls, lists,
         args, value, clock, executed, kill>>

\* No CombatCalculator exists and no thread runs.
CalcIdle == setup = None /\ memo = None /\ calls = <<>> /\ lists = <<>>

\* No method of a value object is under evaluation.
PureIdle == args = None /\ value = None

\* No GameClock exists.
ClockIdle == clock = None /\ executed = <<>>

\* No simulate_kill call runs.
KillIdle == kill = None

NotDetected == [weapon |-> <<>>, item |-> <<>>, set |-> <<>>]

Detect(c) ==
    [weapon |-> detect_weapon_effects(c.weapon_name, c),
     item |-> detect_item_effects(c.equipped_items, c),
     set |-> detect_set_bonuses(c.equipped_items, c)]

\* The history of the calls: the first resolution, whether a resolution for
\* another context has returned since, and whether the first context was
\* resolved once more after that.
Remember(c, m) ==
    IF IsNone(first)
    THEN Some([context |-> c, modifiers |-> m, others |-> FALSE, again |-> FALSE])
    ELSE IF Get(first).context = c
         THEN Some([Get(first) EXCEPT !.again = Get(first).again \/ Get(first).others])
         ELSE Some([Get(first) EXCEPT !.others = TRUE])

Init ==
    /\ context \in Contexts
    /\ pc = "start"
    /\ detected = NotDetected
    /\ active = <<>>
    /\ stacked = <<>>
    /\ modifiers = None
    /\ first = None
    /\ CalcIdle /\ PureIdle /\ ClockIdle /\ KillIdle

\* EffectEngine.get_active_effects(context)
GetActiveEffects ==
    /\ pc = "start"
    /\ detected' = Detect(context)
    /\ active' = detected'.weapon \o detected'.item \o detected'.set
    /\ pc' = "detected"
    /\ UNCHANGED <<context, stacked, modifiers, first>>
    /\ UNCHANGED <<calcvars, purevars, clockvars, kill>>

\* EffectEngine.get_modifiers_from_effects(effects, context), on the caller's list
GetModifiersFromEffects ==
    /\ pc = "detected"
    /\ stacked' = resolve_stacking(active)
    /\ modifiers' = Some(resolve_modifiers(active, context))
    /\ active' = resolve_stacking_run(active).effects
    /\ first' = Remember(context, Get(modifiers'))
    /\ pc' = "resolved"
    /\ UNCHANGED <<context, detected>>
    /\ UNCHANGED <<calcvars, purevars, clockvars, kill>>

\* EffectEngine.get_modifiers(context)
GetModifiers ==
    /\ pc = "start"
    /\ detected' = Detect(context)
    /\ LET effects == detected'.weapon \o detected'.item \o detected'.set
       IN /\ stacked' = resolve_stacking(effects)
          /\ modifiers' = Some(resolve_modifiers(effects, context))
          /\ active' = resolve_stacking_run(effects).effects
    /\ first' = Remember(context, Get(modifiers'))
    /\ pc' = "resolved"
    /\ UNCHANGED context
    /\ UNCHANGED <<calcvars, purevars, clockvars, kill>>

Next == GetActiveEffects \/ GetModifiersFromEffects \/ GetModifiers

Spec == Init /\ [][Next]_vars

\* resolve_modifiers on every effect list over EffectPool, at full and at low HP.
InitResolve ==
    /\ context \in { [CombatContext(MELEE, "slash", "Abyssal whip", <<>>) EXCEPT
                         !.player_hp_percent = hp] : hp \in {ROne, Rat(1, 99)} }
    /\ pc = "detected"
    /\ detected = NotDetected
    /\ active \in EffectLists
    /\ stacked = <<>>
    /\ modifiers = None
    /\ first = None
    /\ CalcIdle /\ PureIdle /\ ClockIdle /\ KillIdle

NextResolve == GetModifiersFromEffects

SpecResolve == InitResolve /\ [][NextResolve]_vars

\* The largest denominator of the HP fractions, and the largest maximum HP
\* below 99, of the contexts Dharok's scaling is resolved in.
MaxHpDen == 4
MaxPlayerHp == 6

HpFractions ==
    {Rat(q[1], q[2]) : q \in {r \in (0..MaxHpDen) \X (1..MaxHpDen) : r[1] <= r[2]}}
        \cup {Rat(1, 99)}
MaxHps == 1..MaxPlayerHp \cup {99}

\* Effect lists around Dharok's set effect: alone, next to other effects,
\* absent, and with an effective proc chance below 1.
DharokLists ==
    LET dharok == ActiveEffect(DHAROKS_SET_EFFECT, "Dharok's Set (4/4)", ROne)
        cape == ActiveEffect(CAPE_A, "Cape A", ROne)
        ring_a == ActiveEffect(RING_A, "Ring A", ROne)
        ring_b == ActiveEffect(RING_B, "Ring B", ROne)
    IN { <<dharok>>, <<dharok, cape>>, <<ring_a, dharok, ring_b>>, <<cape>>,
         <<ActiveEffect(DHAROKS_SET_EFFECT, "Dharok's Set (4/4)", Rat(1, 2))>> }

\* resolve_modifiers around Dharok's set effect, at every HP and maximum HP.
InitDharok ==
    /\ context \in { [CombatContext(MELEE, "slash", "Abyssal whip", <<>>) EXCEPT
                         !.player_hp_percent = hp, !.player_max_hp = mx] :
                     hp \in HpFractions, mx \in MaxHps }
    /\ pc = "detected"
    /\ detected = NotDetected
    /\ active \in DharokLists
    /\ stacked = <<>>
    /\ modifiers = None
    /\ first = None
    /\ CalcIdle /\ PureIdle /\ ClockIdle /\ KillIdle

SpecDharok == InitDharok /\ [][NextResolve]_vars

\* The contexts of a caller that resolves repeatedly: one fight, the
\* equipment changing between calls.
ContextsPure ==
    {c \in Contexts : /\ c.combat_style = MELEE
                      /\ c.weapon_name = "Abyssal whip"
                      /\ c.on_slayer_task /\ ~c.in_wilderness
                      /\ ~IsNone(c.target) /\ Get(c.target).is_undead}

InitPure ==
    /\ context \in ContextsPure
    /\ pc = "start"
    /\ detected = NotDetected
    /\ active = <<>>
    /\ stacked = <<>>
    /\ modifiers = None
    /\ first = None
    /\ CalcIdle /\ PureIdle /\ ClockIdle /\ KillIdle

\* The caller builds another context and starts over with fresh results.
NewCall ==
    /\ pc = "resolved"
    /\ context' \in ContextsPure
    /\ pc' = "start"
    /\ detected' = NotDetected
    /\ active' = <<>>
    /\ stacked' = <<>>
    /\ modifiers' = None
    /\ UNCHANGED first
    /\ UNCHANGED <<calcvars, purevars, clockvars, kill>>

\* The caller hands the list it holds to get_modifiers_from_effects once more.
Reuse ==
    /\ pc = "resolved"
    /\ pc' = "detected"
    /\ UNCHANGED <<context, detected, active, stacked, modifiers, first>>
    /\ UNCHANGED <<calcvars, purevars, clockvars, kill>>

NextPure == GetActiveEffects \/ GetModifiersFromEffects \/ GetModifiers \/ NewCall \/ Reuse

SpecPure == InitPure /\ [][NextPure]_vars

\* An effect of an additive group whose modifier scales with missing HP; no
\* catalog entry is of this kind.
RING_H ==
    [RING_A EXCEPT !.id = "ring_h", !.name = "Ring H",
        !.modifier = [EffectModifier EXCEPT !.damage_mult = Rat(11, 10),
                                            !.scales_with_missing_hp = TRUE]]

\* Effect lists with none, one and several effects that scale with missing HP.
FlaggedLists ==
    LET dharok == ActiveEffect(DHAROKS_SET_EFFECT, "Dharok's Set (4/4)", ROne)
        axe == ActiveEffect(DHAROKS_SET_EFFECT, "dharoks_greataxe", ROne)
        maybe == ActiveEffect(DHAROKS_SET_EFFECT, "Dharok's Set (4/4)", Rat(1, 2))
        cape == ActiveEffect(CAPE_A, "Cape A", ROne)
        ring_a == ActiveEffect(RING_A, "Ring A", ROne)
        ring_h == ActiveEffect(RING_H, "Ring H", ROne)
    IN { <<>>, <<cape>>, <<dharok>>, <<dharok, axe>>, <<dharok, cape, axe>>, <<dharok, dharok>>,
         <<maybe>>, <<maybe, cape>>, <<maybe, dharok>>, <<ring_h>>, <<ring_a, ring_h>>,
         <<ring_h, dharok>>, <<ring_a, cape>> }

\* resolve_modifiers on those lists, at every HP and maximum HP.
InitFlagged ==
    /\ context \in { [CombatContext(MELEE, "slash", "Abyssal whip", <<>>) EXCEPT
                         !.player_hp_percent = hp, !.player_max_hp = mx] :
                     hp \in HpFractions, mx \in MaxHps }
    /\ pc = "detected"
    /\ detected = NotDetected
    /\ active \in FlaggedLists
    /\ stacked = <<>>
    /\ modifiers = None
    /\ first = None
    /\ CalcIdle /\ PureIdle /\ ClockIdle /\ KillIdle

SpecFlagged == InitFlagged /\ [][NextResolve]_vars

\* ------------------------------------------------------------ salve amulets and slayer helmets
\* The headgear and the amulets of the slayer_undead group.
SalveItems == {"slayer_helmet", "slayer_helmet_i", "salve_amulet", "salve_amulet_e", "salve_amulet_ei"}

\* One of them alone, or two of them in either order.
SalveItemLists ==
    {<<>>} \cup { <<a>> : a \in SalveItems }
           \cup { p \in SalveItems \X SalveItems : p[1] # p[2] }

SalveContexts ==
    { [CombatContext(style, "slash", "Abyssal whip", items) EXCEPT
          !.target = target, !.on_slayer_task = slayer] :
        style \in CombatStyle, items \in SalveItemLists, target \in Targets, slayer \in BOOLEAN }

InitSalve ==
    /\ context \in SalveContexts
    /\ pc = "start"
    /\ detected = NotDetected
    /\ active = <<>>
    /\ stacked = <<>>
    /\ modifiers = None
    /\ first = None
    /\ CalcIdle /\ PureIdle /\ ClockIdle /\ KillIdle

SpecSalve == InitSalve /\ [][Next]_vars

\* ------------------------------------------------------------ every catalog effect, in the contexts made for it
AttackTypes == {"stab", "slash", "crush", "ranged", "magic"}

\* A large target without an attribute, and one with each attribute
\* get_target_attributes can report.
AttributeTargets ==
    { Some([MonsterStats EXCEPT !.tile_size = 5]),
      Some([MonsterStats EXCEPT !.tile_size = 5, !.is_undead = TRUE]),
      Some([MonsterStats EXCEPT !.tile_size = 5, !.is_demon = TRUE]),
      Some([MonsterStats EXCEPT !.tile_size = 5, !.is_dragon = TRUE]),
      Some([MonsterStats EXCEPT !.tile_size = 5, !.is_kalphite = TRUE]),
      Some([MonsterStats EXCEPT !.tile_size = 5, !.is_leafy = TRUE]) }

\* The weapon names that can bring the effect: its WEAPON_EFFECTS patterns,
\* the patterns its condition asks for, and a weapon without an effect.
WeaponsFor(effect) ==
    {"Abyssal whip"}
        \cup {WEAPON_EFFECTS[i][1] : i \in {j \in DOMAIN WEAPON_EFFECTS : WEAPON_EFFECTS[j][2].id = effect.id}}
        \cup (IF IsNone(effect.condition.using_specific_weapon) THEN {}
              ELSE Range(Get(effect.condition.using_specific_weapon)))

\* The item lists that can bring the effect: its source items, and all pieces
\* of a set that grants it.
ItemsFor(effect) ==
    {effect.source_items}
        \cup {ALL_SET_BONUSES[i][2].required_items :
                  i \in {j \in DOMAIN ALL_SET_BONUSES : ALL_SET_BONUSES[j][2].effect.id = effect.id}}

\* On task, in the wilderness, at 1% of the hitpoints: every requirement a
\* condition can make besides the target's attribute and the weapon is met.
ContextsFor(effect) ==
    { [CombatContext(style, at, w, items) EXCEPT
          !.target = target, !.on_slayer_task = TRUE, !.in_wilderness = TRUE,
          !.player_hp_percent = Rat(1, 100)] :
        style \in Range(effect.combat_styles), at \in AttackTypes, w \in WeaponsFor(effect),
        items \in ItemsFor(effect), target \in AttributeTargets }

ActivationContexts == UNION {ContextsFor(ALL_EFFECTS[i][2]) : i \in DOMAIN ALL_EFFECTS}

InitActivate ==
    /\ context \in ActivationContexts
    /\ pc = "start"
    /\ detected = NotDetected
    /\ active = <<>>
    /\ stacked = <<>>
    /\ modifiers = None
    /\ first = None
    /\ CalcIdle /\ PureIdle /\ ClockIdle /\ KillIdle

SpecActivate == InitActivate /\ [][Next]_vars

\* ------------------------------------------------------------ the caller reorders the list

\* The longest list whose orders are all tried.
MaxPermuted == 4

\* The contexts of Contexts, on a slayer task, for which get_active_effects
\* returns two to MaxPermuted effects.
PermContexts ==
    { c \in Contexts : c.on_slayer_task /\ Len(get_active_effects(c)) \in 2..MaxPermuted }

InitPermute ==
    /\ context \in PermContexts
    /\ pc = "start"
    /\ detected = NotDetected
    /\ active = <<>>
    /\ stacked = <<>>
    /\ modifiers = None
    /\ first = None
    /\ CalcIdle /\ PureIdle /\ ClockIdle /\ KillIdle

\* The caller swaps two neighbours of the list get_active_effects returned.
Reorder ==
    /\ pc = "detected"
    /\ \E i \in 1..(Len(active) - 1) :
          active' = [active EXCEPT ![i] = active[i + 1], ![i + 1] = active[i]]
    /\ UNCHANGED <<context, pc, detected, stacked, modifiers, first>>
    /\ UNCHANGED <<calcvars, purevars, clockvars, kill>>

NextPermute == GetActiveEffects \/ Reorder \/ GetModifiersFromEffects

SpecPermute == InitPermute /\ [][NextPermute]_vars

\* ------------------------------------------------------------ formulas.py
RDiv(a, b) == Rat(a[1] * b[2], a[2] * b[1])
\* math.floor
RFloor(a) == a[1] \div a[2]

effective_level(base_level, boost, prayer_multiplier, style_bonus, void_multiplier) ==
    LET level_with_prayer == RFloor(RMul(Rat(base_level + boost, 1), prayer_multiplier))
        level_with_style == level_with_prayer + style_bonus + 8
    IN RFloor(RMul(Rat(level_with_style, 1), void_multiplier))

max_hit_melee(effective_strength, strength_bonus, gear_multiplier) ==
    LET base_max == RFloor(Rat(effective_strength * (strength_bonus + 64) + 320, 640))
    IN RFloor(RMul(Rat(base_max, 1), gear_multiplier))

attack_roll(effective_attack, attack_bonus, gear_multiplier) ==
    LET base_roll == effective_attack * (attack_bonus + 64)
    IN RFloor(RMul(Rat(base_roll, 1), gear_multiplier))

defence_roll_npc(defence_level, style_defence_bonus, magic_level, is_magic_attack) ==
    IF is_magic_attack
    THEN (magic_level + 9) * (style_defence_bonus + 64)
    ELSE (defence_level + 9) * (style_defence_bonus + 64)

hit_chance(atk_roll, def_roll) ==
    IF atk_roll > def_roll
    THEN RSub(ROne, Rat(def_roll + 2, 2 * (atk_roll + 1)))
    ELSE Rat(atk_roll, 2 * (def_roll + 1))

osmumtens_fang_hit_chance(atk_roll, def_roll) ==
    LET base_chance == hit_chance(atk_roll, def_roll)
        miss_chance == RSub(ROne, base_chance)
    IN RSub(ROne, RMul(miss_chance, miss_chance))

osmumtens_fang_average_damage(min_hit, max_hit) == Rat(min_hit + max_hit, 2)

\* <<hit chance, average damage per attack>>
scythe_hit_chance_and_damage(atk_roll, def_roll, max_hit, target_size) ==
    LET base_hit_chance == hit_chance(atk_roll, def_roll)
        first_hit == RMul(base_hit_chance, Rat(max_hit, 2))
        second_max == RFloor(RMul(Rat(max_hit, 1), Rat(1, 2)))
        second_hit == IF target_size >= 2 THEN RMul(base_hit_chance, Rat(second_max, 2)) ELSE RZero
        third_max == RFloor(RMul(Rat(max_hit, 1), Rat(1, 4)))
        third_hit == IF target_size >= 3 THEN RMul(base_hit_chance, Rat(third_max, 2)) ELSE RZero
    IN <<base_hit_chance, RAdd(RAdd(first_hit, second_hit), third_hit)>>

\* MonsterStats.get_defence_bonus
get_defence_bonus(self, attack_style) ==
    LET style == Lower(Chars[attack_style])
    IN IF style = Chars["stab"] THEN self.stab_defence
       ELSE IF style = Chars["slash"] THEN self.slash_defence
       ELSE IF style = Chars["crush"] THEN self.crush_defence
       ELSE 0

\* EquipmentStats.get_attack_bonus
get_attack_bonus(self, attack_type) ==
    IF attack_type = "stab" THEN self.stab_attack
    ELSE IF attack_type = "slash" THEN self.slash_attack
    ELSE IF attack_type = "crush" THEN self.crush_attack
    ELSE 0

\* ------------------------------------------------------------ simulation.py
\* EquipmentStats: the melee fields, with the dataclass defaults.
EquipmentStats == [stab_attack |-> 0, slash_attack |-> 0, crush_attack |-> 0, melee_strength |-> 0]

\* A melee Weapon.
Weapon(name, attack_speed, attack_type) ==
    [name |-> name, attack_speed |-> attack_speed, attack_type |-> attack_type,
     combat_style |-> MELEE, stats |-> EquipmentStats]

\* CombatSetup with the dataclass defaults (stats 99, AttackStyle.AGGRESSIVE,
\* Prayer.NONE, no potion) after __post_init__, which adds the weapon's stats
\* and appends the weapon's key to the equipped items.
CombatSetup(weapon, equipped_items) ==
    LET named == ~IsNone(weapon) /\ Get(weapon).name # ""
        weapon_key == CHOOSE k \in DOMAIN Chars : Chars[k] = WeaponLower(Get(weapon).name)
        worn == \E j \in DOMAIN equipped_items :
                    WeaponLower(equipped_items[j]) = Chars[weapon_key]
        own == [k \in DOMAIN EquipmentStats |->
                    EquipmentStats[k] + (IF IsNone(weapon) THEN 0 ELSE Get(weapon).stats[k])]
    IN [stats |-> [attack |-> 99, strength |-> 99, hitpoints |-> 99],
        weapon |-> weapon,
        equipment_stats |-> own,
        attack_style |-> [attack_bonus |-> 0, strength_bonus |-> 3],
        prayer |-> [attack_multiplier |-> ROne, strength_multiplier |-> ROne],
        potion |-> [attack |-> 0, strength |-> 0],
        target |-> None,
        on_slayer_task |-> FALSE,
        equipped_items |-> IF named /\ ~worn THEN Append(equipped_items, weapon_key)
                           ELSE equipped_items,
        in_wilderness |-> FALSE,
        player_hp_percent |-> ROne,
        target_defence_reduction |-> RZero]

\* The CombatContext _get_effect_modifiers builds from the setup.
ContextOf(s) ==
    [combat_style |-> IF IsNone(s.weapon) THEN MELEE ELSE Get(s.weapon).combat_style,
     attack_type |-> IF IsNone(s.weapon) THEN "slash" ELSE Get(s.weapon).attack_type,
     weapon_name |-> IF IsNone(s.weapon) THEN "" ELSE Get(s.weapon).name,
     equipped_items |-> s.equipped_items,
     target |-> s.target,
     on_slayer_task |-> s.on_slayer_task,
     in_wilderness |-> s.in_wilderness,
     player_hp_percent |-> s.player_hp_percent,
     player_max_hp |-> s.stats.hitpoints]

\* The CombatResult calculate returns without a weapon.
NoWeaponResult ==
    [dps |-> RZero, max_hit |-> 0, hit_chance |-> RZero, attack_roll |-> 0, defence_roll |-> 0,
     weapon_name |-> "", attack_speed_ticks |-> 4, active_effects |-> None]

\* CombatCalculator._calculate_melee of a calculator built with
\* use_effects=True, on the modifiers _get_effect_modifiers returned.
calculate_melee(s, mods) ==
    LET weapon == Get(s.weapon)
        accuracy_mult == mods.accuracy_mult
        damage_mult == mods.damage_mult
        eff_attack == effective_level(s.stats.attack, s.potion.attack,
                                      s.prayer.attack_multiplier, s.attack_style.attack_bonus, ROne)
        eff_strength == effective_level(s.stats.strength, s.potion.strength,
                                        s.prayer.strength_multiplier,
                                        s.attack_style.strength_bonus, ROne)
        equip_attack_bonus == get_attack_bonus(s.equipment_stats, weapon.attack_type)
        strength_bonus == s.equipment_stats.melee_strength
        atk_roll == attack_roll(eff_attack, equip_attack_bonus, accuracy_mult)
        base_max_dmg == max_hit_melee(eff_strength, strength_bonus, damage_mult)
        def_bonus == IF IsNone(s.target) THEN 0
                     ELSE get_defence_bonus(Get(s.target), weapon.attack_type)
        def_level ==
            IF IsNone(s.target) THEN 0
            ELSE IF RLt(RZero, s.target_defence_reduction)
                 THEN Max(0, RInt(RMul(Rat(Get(s.target).defence_level, 1),
                                       RSub(ROne, s.target_defence_reduction))))
                 ELSE Get(s.target).defence_level
        def_roll == IF IsNone(s.target) THEN 0
                    ELSE defence_roll_npc(def_level, def_bonus, 0, FALSE)
        fang_damage == ~IsNone(mods.min_hit_percent) /\ ~IsNone(mods.max_hit_percent)
        min_hit == RFloor(RMul(Rat(base_max_dmg, 1), Get(mods.min_hit_percent)))
        max_hit == RFloor(RMul(Rat(base_max_dmg, 1), Get(mods.max_hit_percent)))
        max_dmg == IF fang_damage THEN max_hit ELSE base_max_dmg
        scythe == ~IsNone(mods.extra_hits) /\ Get(mods.extra_hits) # <<>>
                  /\ ~IsNone(s.target)
        swing == scythe_hit_chance_and_damage(atk_roll, def_roll, max_dmg,
                                              Get(s.target).tile_size)
        accuracy == IF scythe THEN swing[1]
                    ELSE IF mods.double_accuracy_roll
                         THEN osmumtens_fang_hit_chance(atk_roll, def_roll)
                         ELSE hit_chance(atk_roll, def_roll)
        avg_damage == IF scythe THEN swing[2]
                      ELSE IF fang_damage THEN osmumtens_fang_average_damage(min_hit, max_hit)
                           ELSE Rat(base_max_dmg, 2)
        dps == RDiv(RMul(accuracy, avg_damage), RMul(Rat(weapon.attack_speed, 1), Rat(3, 5)))
    IN [dps |-> dps, max_hit |-> max_dmg, hit_chance |-> accuracy, attack_roll |-> atk_roll,
        defence_roll |-> def_roll, weapon_name |-> weapon.name,
        attack_speed_ticks |-> weapon.attack_speed, active_effects |-> Some(mods)]

\* Mutant: every running get_active_effects appends to one shared list.
SharedList(t) == 1

\* The list a running get_active_effects appends to: its own local `active`.
OwnList(t) == t

\* A running call of thread t: calculate() on the calculator ("calculator"),
\* or EffectEngine.get_modifiers on a context of its own ("engine"); number
\* counts the calls the thread has made.
Call(kind, own_context, number) ==
    [kind |-> kind, pc |-> IF kind = "calculator" THEN "calculate" ELSE "get_active_effects",
     context |-> own_context, modifiers |-> None, result |-> None, number |-> number]

At(t, where) == t \in DOMAIN calls /\ calls[t].pc = where

\* CombatCalculator.calculate up to its dispatch on the combat style
Calculate(t) ==
    /\ At(t, "calculate")
    /\ calls' = [calls EXCEPT ![t] =
                    IF IsNone(Get(setup).weapon)
                    THEN [@ EXCEPT !.result = Some(NoWeaponResult), !.pc = "done"]
                    ELSE [@ EXCEPT !.pc = "_get_effect_modifiers"]]
    /\ UNCHANGED <<setup, memo, lists>>
    /\ UNCHANGED <<enginevars, purevars, clockvars, kill>>

\* _get_effect_modifiers: the test of the memo, and the context it builds
GetEffectModifiers(t) ==
    /\ At(t, "_get_effect_modifiers")
    /\ calls' = [calls EXCEPT ![t] =
                    IF ~IsNone(memo)
                    THEN [@ EXCEPT !.modifiers = memo, !.pc = "_calculate_melee"]
                    ELSE [@ EXCEPT !.context = Some(ContextOf(Get(setup))),
                                   !.pc = "get_active_effects"]]
    /\ UNCHANGED <<setup, memo, lists>>
    /\ UNCHANGED <<enginevars, purevars, clockvars, kill>>

\* get_active_effects: active = []
NewList(t) ==
    /\ At(t, "get_active_effects")
    /\ lists' = [lists EXCEPT ![OwnList(t)] = <<>>]
    /\ calls' = [calls EXCEPT ![t].pc = "detect_weapon_effects"]
    /\ UNCHANGED <<setup, memo>>
    /\ UNCHANGED <<enginevars, purevars, clockvars, kill>>

\* get_active_effects: active.extend(detect_weapon_effects(...))
WeaponPass(t) ==
    /\ At(t, "detect_weapon_effects")
    /\ LET c == Get(calls[t].context)
       IN lists' = [lists EXCEPT ![OwnList(t)] = @ \o detect_weapon_effects(c.weapon_name, c)]
    /\ calls' = [calls EXCEPT ![t].pc = "detect_item_effects"]
    /\ UNCHANGED <<setup, memo>>
    /\ UNCHANGED <<enginevars, purevars, clockvars, kill>>

\* get_active_effects: active.extend(detect_item_effects(...))
ItemPass(t) ==
    /\ At(t, "detect_item_effects")
    /\ LET c == Get(calls[t].context)
       IN lists' = [lists EXCEPT ![OwnList(t)] = @ \o detect_item_effects(c.equipped_items, c)]
    /\ calls' = [calls EXCEPT ![t].pc = "detect_set_bonuses"]
    /\ UNCHANGED <<setup, memo>>
    /\ UNCHANGED <<enginevars, purevars, clockvars, kill>>

\* get_active_effects: active.extend(detect_set_bonuses(...))
SetPass(t) ==
    /\ At(t, "detect_set_bonuses")
    /\ LET c == Get(calls[t].context)
       IN lists' = [lists EXCEPT ![OwnList(t)] = @ \o detect_set_bonuses(c.equipped_items, c)]
    /\ calls' = [calls EXCEPT ![t].pc = "resolve_modifiers"]
    /\ UNCHANGED <<setup, memo>>
    /\ UNCHANGED <<enginevars, purevars, clockvars, kill>>

\* get_modifiers: resolve_modifiers on the returned list; in a calculator the
\* result is assigned to _resolved_modifiers
Resolve(t) ==
    /\ At(t, "resolve_modifiers")
    /\ LET resolved == Some(resolve_modifiers(lists[OwnList(t)], Get(calls[t].context)))
       IN IF calls[t].kind = "calculator"
          THEN /\ memo' = resolved
               /\ calls' = [calls EXCEPT ![t].pc = "return"]
          ELSE /\ memo' = memo
               /\ calls' = [calls EXCEPT ![t].modifiers = resolved, ![t].pc = "done"]
    /\ UNCHANGED <<setup, lists>>
    /\ UNCHANGED <<enginevars, purevars, clockvars, kill>>

\* _get_effect_modifiers: return self._resolved_modifiers
ReturnMemo(t) ==
    /\ At(t, "return")
    /\ calls' = [calls EXCEPT ![t].modifiers = memo, ![t].pc = "_calculate_melee"]
    /\ UNCHANGED <<setup, memo, lists>>
    /\ UNCHANGED <<enginevars, purevars, clockvars, kill>>

\* _calculate_melee from the modifiers on
CalculateMelee(t) ==
    /\ At(t, "_calculate_melee")
    /\ calls' = [calls EXCEPT
                    ![t].result = Some(calculate_melee(Get(setup), Get(calls[t].modifiers))),
                    ![t].pc = "done"]
    /\ UNCHANGED <<setup, memo, lists>>
    /\ UNCHANGED <<enginevars, purevars, clockvars, kill>>

\* The steps of thread t.
Step(t) ==
    \/ Calculate(t) \/ GetEffectModifiers(t) \/ NewList(t) \/ WeaponPass(t) \/ ItemPass(t)
    \/ SetPass(t) \/ Resolve(t) \/ ReturnMemo(t) \/ CalculateMelee(t)

\* No step of the engine's own state machine is taken.
EngineIdle ==
    /\ context = CombatContext(MELEE, "slash", "", <<>>)
    /\ pc = "idle"
    /\ detected = NotDetected
    /\ active = <<>>
    /\ stacked = <<>>
    /\ modifiers = None
    /\ first = None

\* ------------------------------------------------------------ calculator inputs

\* Monsters the calculator is pointed at; against the third one an attacker
\* of attack level 1 without bonuses rolls 576 against 575.
CalcTargets ==
    { None, Some(MonsterStats),
      Some([MonsterStats EXCEPT !.defence_level = 14, !.stab_defence = -39,
                                !.slash_defence = -39, !.tile_size = 3]),
      Some([MonsterStats EXCEPT !.defence_level = 40, !.is_undead = TRUE, !.tile_size = 2]) }

\* Optional[Weapon]; the second is a melee Weapon whose name is empty.
CalcWeapons ==
    { None, Some(Weapon("", 4, "slash")), Some(Weapon("Osmumten's fang", 5, "stab")),
      Some(Weapon("Scythe of vitur", 5, "slash")), Some(Weapon("Abyssal whip", 4, "slash")) }

CalcItems == { <<>>, <<"slayer_helmet_i">>, <<"salve_amulet_ei", "berserker_necklace">> }

CalcSetups ==
    { [CombatSetup(weapon, items) EXCEPT
          !.stats.attack = 1, !.target = target, !.on_slayer_task = slayer] :
        weapon \in CalcWeapons, items \in CalcItems, target \in CalcTargets,
        slayer \in BOOLEAN }

\* How many times one thread calls calculate().
MaxCalls == 2

\* ------------------------------------------------------------ one calculator, one caller

InitCalc ==
    /\ EngineIdle /\ PureIdle /\ ClockIdle /\ KillIdle
    /\ setup \in {Some(s) : s \in CalcSetups}
    /\ memo = None
    /\ calls = << Call("calculator", None, 1) >>
    /\ lists = << <<>> >>

\* The caller assigns one field of the setup after a calculation.
SetField(t) ==
    /\ At(t, "done")
    /\ \E changed \in
            {[Get(setup) EXCEPT !.on_slayer_task = ~@]}
            \cup {[Get(setup) EXCEPT !.target = target] : target \in CalcTargets}
            \cup {[Get(setup) EXCEPT !.weapon = weapon] : weapon \in CalcWeapons \ {None}} :
        /\ changed # Get(setup)
        /\ setup' = Some(changed)
    /\ calls' = [calls EXCEPT ![t].pc = "assigned"]
    /\ UNCHANGED <<memo, lists>>
    /\ UNCHANGED <<enginevars, purevars, clockvars, kill>>

\* The caller calls calculate() on the same calculator again.
CalculateAgain(t) ==
    /\ At(t, "done") \/ At(t, "assigned")
    /\ calls[t].number < MaxCalls
    /\ calls' = [calls EXCEPT ![t] = Call("calculator", None, @.number + 1)]
    /\ UNCHANGED <<setup, memo, lists>>
    /\ UNCHANGED <<enginevars, purevars, clockvars, kill>>

NextCalc == Step(1) \/ SetField(1) \/ CalculateAgain(1)

SpecCalc == InitCalc /\ [][NextCalc]_vars

\* ------------------------------------------------------------ concurrent callers

\* How many threads call at once.
NumThreads == 2

\* The setup of the calculator the threads share.
ThreadSetups ==
    { [CombatSetup(Some(Weapon("Osmumten's fang", 5, "stab")), <<>>) EXCEPT
          !.stats.attack = 1, !.target = Some(MonsterStats)],
      [CombatSetup(Some(Weapon("Abyssal whip", 4, "slash")), <<"slayer_helmet_i">>) EXCEPT
          !.stats.attack = 1, !.target = Some(MonsterStats), !.on_slayer_task = TRUE],
      [CombatSetup(None, <<>>) EXCEPT !.stats.attack = 1] }

\* The contexts of the threads that call EffectEngine.get_modifiers themselves.
ThreadContexts ==
    { CombatContext(MELEE, "slash", "Scythe of vitur", <<"berserker_necklace">>),
      [CombatContext(RANGED, "ranged", "crystal_bow", <<"crystal_helm", "crystal_body">>)
          EXCEPT !.target = Some([MonsterStats EXCEPT !.is_undead = TRUE])] }

InitThreads ==
    /\ EngineIdle /\ PureIdle /\ ClockIdle /\ KillIdle
    /\ setup \in {Some(s) : s \in ThreadSetups}
    /\ memo = None
    /\ calls \in [1..NumThreads ->
                    {Call("calculator", None, 1)}
                    \cup {Call("engine", Some(c), 1) : c \in ThreadContexts}]
    /\ lists = [t \in 1..NumThreads |-> <<>>]

NextThreads == \E t \in 1..NumThreads : Step(t)

SpecThreads == InitThreads /\ [][NextThreads]_vars

\* ------------------------------------------------------------ EffectCondition.is_met on its own

\* The largest target size and minimum size tried.
MaxSize == 2

\* Conditions over every field but the weapon patterns.
FieldConditions ==
    { [EffectCondition EXCEPT
          !.vs_attribute = attribute, !.on_slayer_task = slayer, !.in_wilderness = wild,
          !.player_hp_below = hp, !.target_size_min = size, !.using_attack_type = attack] :
        attribute \in {None, Some("undead")}, slayer \in BOOLEAN, wild \in BOOLEAN,
        hp \in {None, Some(Rat(1, 2))},
        size \in {None} \cup {Some(n) : n \in 1..(MaxSize + 1)},
        attack \in {None, Some("crush")} }

\* The keyword arguments of is_met, weapon_name left at its default.
FieldFacts ==
    [target_attributes : {None, Some(<<>>), Some(<<"dragon", "undead">>)},
     on_slayer_task : BOOLEAN, in_wilderness : BOOLEAN,
     player_hp_percent : {Rat(1, 4), ROne},
     target_size : 1..MaxSize,
     attack_type : {None, Some("slash"), Some("Crush")},
     weapon_name : {None}]

\* Conditions on the weapon name only.
WeaponConditions ==
    { [EffectCondition EXCEPT !.using_specific_weapon = Some(patterns)] :
        patterns \in { <<"osmumten's_fang">>, <<"toktz", "tzhaar", "obsidian">>,
                       <<"crystal_bow", "bow_of_faerdhinen">> } }

WeaponFacts ==
    [target_attributes : {None}, on_slayer_task : BOOLEAN, in_wilderness : {FALSE},
     player_hp_percent : {ROne}, target_size : {1}, attack_type : {None, Some("slash")},
     weapon_name : {None, Some(""), Some("fang"), Some("Osmumten's fang"), Some("Toktz-xil-ak"),
                    Some("crystal_bow"), Some("Abyssal whip")}]

InitCondition ==
    /\ EngineIdle /\ CalcIdle /\ ClockIdle /\ KillIdle
    /\ args \in {Some([condition |-> c, facts |-> f]) : c \in FieldConditions, f \in FieldFacts}
            \cup {Some([condition |-> c, facts |-> f]) : c \in WeaponConditions, f \in WeaponFacts}
    /\ value = None

\* condition.is_met(**facts)
IsMet ==
    /\ value = None
    /\ value' = Some(is_met(Get(args).condition, Get(args).facts))
    /\ UNCHANGED args
    /\ UNCHANGED <<enginevars, calcvars, clockvars, kill>>

SpecCondition == InitCondition /\ [][IsMet]_vars

\* ------------------------------------------------------------ EffectModifier.combine on its own

\* EffectModifier values, optional fields at None, at 0.0 / [] and populated.
Modifiers ==
    { [EffectModifier EXCEPT
          !.accuracy_mult = mults[1], !.damage_mult = mults[2],
          !.double_accuracy_roll = roll, !.scales_with_missing_hp = scales,
          !.min_hit_percent = low, !.max_hit_percent = high, !.extra_hits = hits] :
        mults \in { <<ROne, ROne>>, <<Rat(7, 6), Rat(6, 5)>> },
        roll \in BOOLEAN, scales \in BOOLEAN,
        low \in {None, Some(RZero), Some(Rat(3, 20))},
        high \in {None, Some(Rat(17, 20))},
        hits \in {None, Some(<<>>), Some(<<Rat(1, 2), Rat(1, 4)>>)} }

InitCombine ==
    /\ EngineIdle /\ CalcIdle /\ ClockIdle /\ KillIdle
    /\ args \in {Some([self |-> a, other |-> b]) : a \in Modifiers, b \in Modifiers}
    /\ value = None

\* self.combine(other)
Combine ==
    /\ value = None
    /\ value' = Some(combine(Get(args).self, Get(args).other))
    /\ UNCHANGED args
    /\ UNCHANGED <<enginevars, calcvars, clockvars, kill>>

SpecCombine == InitCombine /\ [][Combine]_vars

\* ------------------------------------------------------------ PassiveEffect on its own
\* PassiveEffect(...): the constructor the dataclass generates; it stores its
\* arguments and the class defines no __post_init__.
PassiveEffect(id, name, source_type, source_items, combat_styles, condition, modifier, proc_chance, stacking_group, stacking_priority, additive_group) ==
    [id |-> id, name |-> name, source_type |-> source_type, source_items |-> source_items,
     combat_styles |-> combat_styles, condition |-> condition, modifier |-> modifier,
     proc_chance |-> proc_chance, stacking_group |-> stacking_group,
     stacking_priority |-> stacking_priority, additive_group |-> additive_group]

\* The proc chances a caller constructs an effect with: inside [0, 1], its
\* ends, and outside on either side.
ProcChances ==
    {Rat(0 - 1, 2), Rat(0 - 1, 10), RZero, Rat(1, 51), Rat(1, 4), Rat(1, 2), ROne,
     Rat(11, 10), Rat(3, 2), Rat(2, 1)}

\* The keyword arguments of the constructor calls: those of catalog effects
\* and of effects outside the catalog, with each of the proc chances.
ConstructorArgs ==
    { [e EXCEPT !.proc_chance = p] :
        e \in {KERIS_PARTISAN, SLAYER_HELM, SALVE_AMULET_EI, CRYSTAL_HELM, RING_A, CAPE_A},
        p \in ProcChances }

InitConstruct ==
    /\ EngineIdle /\ CalcIdle /\ ClockIdle /\ KillIdle
    /\ args \in {Some(a) : a \in ConstructorArgs}
    /\ value = None

\* PassiveEffect(**args)
Construct ==
    /\ value = None
    /\ LET a == Get(args)
       IN value' = Some(PassiveEffect(a.id, a.name, a.source_type, a.source_items, a.combat_styles,
                                      a.condition, a.modifier, a.proc_chance, a.stacking_group,
                                      a.stacking_priority, a.additive_group))
    /\ UNCHANGED args
    /\ UNCHANGED <<enginevars, calcvars, clockvars, kill>>

\* The caller puts the constructed effect into an effect list, as the
\* detection passes do: ActiveEffect(effect, effect.name, effect.proc_chance).
BuildList ==
    /\ ~IsNone(value)
    /\ pc = "idle"
    /\ active' = <<ActiveEffect(Get(value), Get(value).name, Get(value).proc_chance)>>
    /\ pc' = "detected"
    /\ UNCHANGED <<context, detected, stacked, modifiers, first>>
    /\ UNCHANGED <<calcvars, purevars, clockvars, kill>>

NextConstruct == Construct \/ BuildList \/ GetModifiersFromEffects

SpecConstruct == InitConstruct /\ [][NextConstruct]_vars

\* ------------------------------------------------------------ core/tick.py
\* ActionPriority: the values of the enum.
ActionPriority == [HIGH |-> 0, NORMAL |-> 1, LOW |-> 2]

\* The order of the tuples (tick, priority.value, counter) heapq compares; the
\* counter differs between any two entries, so the Action is never compared.
EntryBefore(a, b) ==
    \/ a[1] < b[1]
    \/ a[1] = b[1] /\ a[2] < b[2]
    \/ a[1] = b[1] /\ a[2] = b[2] /\ a[3] < b[3]

\* heapq.heappush(queue, entry). The heap is kept as the sorted sequence of its
\* entries: heappop and queue[0] show a caller its least entry and nothing
\* else of its layout.
heappush(queue, entry) ==
    LET before == SelectSeq(queue, LAMBDA e : EntryBefore(e, entry))
        after == SelectSeq(queue, LAMBDA e : ~EntryBefore(e, entry))
    IN before \o <<entry>> \o after

\* ActionQueue.schedule(tick, callback, priority): the queue and the counter after it.
ActionQueue_schedule(q, tick, priority) ==
    [q EXCEPT !.queue = heappush(q.queue, <<tick, priority, q.counter>>),
              !.counter = q.counter + 1]

RECURSIVE PopWhileDue(_, _, _)
\* The while loop of get_actions_for_tick: pops while the least entry's tick
\* equals the tick asked for.
PopWhileDue(queue, tick, actions) ==
    IF queue # <<>> /\ queue[1][1] = tick
    THEN PopWhileDue(Tail(queue), tick, Append(actions, Head(queue)))
    ELSE [actions |-> actions, queue |-> queue]

\* ActionQueue.get_actions_for_tick(tick): the actions returned and the queue left.
get_actions_for_tick(queue, tick) == PopWhileDue(queue, tick, <<>>)

\* GameClock(): tick 0 and an empty ActionQueue.
GameClock == [tick |-> 0, queue |-> <<>>, counter |-> 0]

\* The last tick the clock is advanced to.
MaxTick == 4

\* The most actions scheduled on one clock.
MaxScheduled == 3

\* The delays schedule is called with: negative, zero and positive.
Delays == {0 - 1, 0, 1, 2}

InitClock ==
    /\ EngineIdle /\ CalcIdle /\ PureIdle /\ KillIdle
    /\ clock = Some(GameClock)
    /\ executed = <<>>

\* GameClock.schedule(delay_ticks, callback, priority)
Schedule(delay_ticks, priority) ==
    /\ Get(clock).counter < MaxScheduled
    /\ clock' = Some(ActionQueue_schedule(Get(clock), Get(clock).tick + delay_ticks, priority))
    /\ UNCHANGED executed
    /\ UNCHANGED <<enginevars, calcvars, purevars, kill>>

\* GameClock.advance(): the callbacks of the returned actions run in order.
Advance ==
    /\ Get(clock).tick < MaxTick
    /\ LET tick == Get(clock).tick + 1
           got == get_actions_for_tick(Get(clock).queue, tick)
       IN /\ clock' = Some([Get(clock) EXCEPT !.tick = tick, !.queue = got.queue])
          /\ executed' = executed \o Map(got.actions, LAMBDA e : [entry |-> e, at |-> tick])
    /\ UNCHANGED <<enginevars, calcvars, purevars, kill>>

NextClock ==
    \/ \E d \in Delays, p \in Range(<<ActionPriority.HIGH, ActionPriority.NORMAL, ActionPriority.LOW>>) :
           Schedule(d, p)
    \/ Advance

SpecClock == InitClock /\ [][NextClock]_vars

\* The caller keeps advancing the clock.
SpecClockAdvancing == SpecClock /\ WF_vars(Advance)

\* ------------------------------------------------------------ simulation.py: simulate_kill
\* The largest max_hit, hitpoints and num_simulations simulate_kill is called with.
MaxMaxHit == 2
MaxHitpoints == 2
MaxSimulations == 2

\* time_elapsed is counted in attack intervals (attack_speed_ticks * 0.6
\* seconds each) up to MaxAttacks; a longer time is kept as MaxAttacks. No
\* branch of simulate_kill reads time_elapsed.
MaxAttacks == 3

\* The CombatResult fields simulate_kill reads; calculate() without a weapon
\* returns hit_chance 0.0 and max_hit 0.
CombatResults ==
    [hit_chance : {RZero, Rat(1, 2), ROne}, max_hit : 0..MaxMaxHit, attack_speed_ticks : {4}]

\* simulate_kill(result, hitpoints, num_simulations): the frame on entry.
simulate_kill(result, hitpoints, num_simulations) ==
    [result |-> result, hitpoints |-> hitpoints, num_simulations |-> num_simulations,
     kill_times |-> <<>>, hp_remaining |-> 0, time_elapsed |-> 0, pc |-> "for"]

InitKill ==
    /\ EngineIdle /\ CalcIdle /\ PureIdle /\ ClockIdle
    /\ kill \in { Some(simulate_kill(r, hp, n)) :
                    r \in CombatResults, hp \in 1..MaxHitpoints, n \in 1..MaxSimulations }

\* for _ in range(num_simulations): the next kill starts
BeginKill ==
    /\ Get(kill).pc = "for"
    /\ Len(Get(kill).kill_times) < Get(kill).num_simulations
    /\ kill' = Some([Get(kill) EXCEPT !.hp_remaining = Get(kill).hitpoints, !.time_elapsed = 0,
                                      !.pc = "while"])
    /\ UNCHANGED <<enginevars, calcvars, purevars, clockvars>>

\* while hp_remaining > 0: if random.random() < result.hit_chance:
\*     hp_remaining -= random.randint(0, result.max_hit)
\* random() lies in [0, 1): a hit can be rolled when hit_chance > 0, a miss
\* when hit_chance < 1.
Roll(hit, damage) ==
    /\ Get(kill).pc = "while"
    /\ Get(kill).hp_remaining > 0
    /\ IF hit THEN RLt(RZero, Get(kill).result.hit_chance) /\ damage \in 0..Get(kill).result.max_hit
              ELSE RLt(Get(kill).result.hit_chance, ROne) /\ damage = 0
    /\ kill' = Some([Get(kill) EXCEPT !.hp_remaining = Get(kill).hp_remaining - damage,
                                      !.pc = "add"])
    /\ UNCHANGED <<enginevars, calcvars, purevars, clockvars>>

\* time_elapsed += attack_interval
AddInterval ==
    /\ Get(kill).pc = "add"
    /\ kill' = Some([Get(kill) EXCEPT
                        !.time_elapsed = IF Get(kill).time_elapsed < MaxAttacks
                                         THEN Get(kill).time_elapsed + 1 ELSE MaxAttacks,
                        !.pc = "while"])
    /\ UNCHANGED <<enginevars, calcvars, purevars, clockvars>>

\* the while loop ends: kill_times.append(time_elapsed)
EndKill ==
    /\ Get(kill).pc = "while"
    /\ Get(kill).hp_remaining <= 0
    /\ kill' = Some([Get(kill) EXCEPT !.kill_times = Append(Get(kill).kill_times, Get(kill).time_elapsed),
                                      !.pc = "for"])
    /\ UNCHANGED <<enginevars, calcvars, purevars, clockvars>>

\* the for loop ends: the average and the deviation are computed and returned
ReturnKillTimes ==
    /\ Get(kill).pc = "for"
    /\ Len(Get(kill).kill_times) >= Get(kill).num_simulations
    /\ kill' = Some([Get(kill) EXCEPT !.pc = "returned"])
    /\ UNCHANGED <<enginevars, calcvars, purevars, clockvars>>

NextKill ==
    \/ BeginKill
    \/ \E hit \in BOOLEAN, damage \in 0..MaxMaxHit : Roll(hit, damage)
    \/ AddInterval
    \/ EndKill
    \/ ReturnKillTimes

SpecKill == InitKill /\ [][NextKill]_vars

\* A roll that takes hitpoints off.
DamagingHit == \E damage \in 1..MaxMaxHit : Roll(TRUE, damage)

\* The call keeps running, and the rolls are independent draws: where a
\* damaging hit has a positive probability at every roll, the rolls do not
\* avoid it forever.
SpecKillFair == SpecKill /\ WF_vars(NextKill) /\ SF_vars(DamagingHit)

\* ------------------------------------------------------------ properties
\* How often x occurs in the sequence s.
Count(s, x) == Cardinality({i \in DOMAIN s : s[i] = x})
Ids(s) == Map(s, LAMBDA e : e.effect.id)
Grouped(s) == SelectSeq(s, LAMBDA e : Truthy(e.effect.stacking_group))
GroupOf(e) == Get(e.effect.stacking_group)
\* The input members of a stacking group.
Members(s, g) == {e \in Range(Grouped(s)) : GroupOf(e) = g}

\* C1: resolve_stacking returns exactly the input effects without a stacking
\* group (each as often as the input holds it) plus, for every stacking group
\* of the input, exactly one input effect of that group, whose priority is the
\* highest among the input members of the group; an empty input gives an
\* empty output.
C1_StackingExclusive ==
    pc = "resolved" =>
        /\ \A e \in Range(active) \cup Range(stacked) :
               ~Truthy(e.effect.stacking_group) => Count(stacked, e) = Count(active, e)
        /\ \A e \in Range(Grouped(stacked)) : e \in Range(active)
        /\ \A g \in {GroupOf(e) : e \in Range(Grouped(active))} :
               /\ Cardinality({i \in DOMAIN stacked :
                                  Truthy(stacked[i].effect.stacking_group)
                                  /\ GroupOf(stacked[i]) = g}) = 1
               /\ \A w \in Members(stacked, g) : \A e \in Members(active, g) :
                      w.effect.stacking_priority >= e.effect.stacking_priority
        /\ \A g \in {GroupOf(e) : e \in Range(Grouped(stacked))} : Members(active, g) # {}
        /\ (active = <<>> => stacked = <<>>)

\* C1 witness: a list with an ungrouped effect and two members of one group of
\* different priority has been resolved, and the lower one was dropped.
C1_Witness ==
    /\ pc = "resolved"
    /\ Len(active) = 3 /\ Len(stacked) = 2
    /\ \E i, j, k \in DOMAIN active :
           /\ ~Truthy(active[i].effect.stacking_group)
           /\ Truthy(active[j].effect.stacking_group) /\ Truthy(active[k].effect.stacking_group)
           /\ GroupOf(active[j]) = GroupOf(active[k])
           /\ active[j].effect.stacking_priority < active[k].effect.stacking_priority

RECURSIVE RProd(_)
\* The product of a sequence of multipliers.
RProd(s) == IF Len(s) = 0 THEN ROne ELSE RMul(Head(s), RProd(Tail(s)))

\* The effects of a list whose effective proc chance is at least 1.
Guaranteed(s) == SelectSeq(s, LAMBDA e : RGeq(e.effective_proc_chance, ROne))
AccuracyOf(e) == e.effect.modifier.accuracy_mult
DamageOf(e) == e.effect.modifier.damage_mult
\* The members of an additive group among the effects s.
AdditiveMembers(s, g) ==
    SelectSeq(s, LAMBDA e : Truthy(e.effect.additive_group) /\ Get(e.effect.additive_group) = g)

\* 1 + sum(multiplier - 1) per additive group, times the product of the
\* multipliers of the effects outside every additive group.
ExpectedMult(s, M(_)) ==
    LET plain == SelectSeq(s, LAMBDA e : ~Truthy(e.effect.additive_group))
        groups == FirstSeen(Map(SelectSeq(s, LAMBDA e : Truthy(e.effect.additive_group)),
                                LAMBDA e : Get(e.effect.additive_group)))
        Total(g) == RAdd(ROne, RSum(Map(AdditiveMembers(s, g), LAMBDA e : RSub(M(e), ROne))))
    IN RMul(RProd(Map(plain, M)), RProd(Map(groups, Total)))

\* The missing-HP factor of a resolution: applied when a guaranteed effect
\* outside the additive groups scales with missing HP.
HpFactor(s, c) ==
    IF \E i \in DOMAIN s : ~Truthy(s[i].effect.additive_group)
                            /\ s[i].effect.modifier.scales_with_missing_hp
    THEN calculate_dharok_multiplier(c.player_hp_percent, c.player_max_hp)
    ELSE ROne

Returned == IF IsNone(modifiers) THEN <<>>
            ELSE Get(modifiers).active_effects \o Get(modifiers).proc_effects
VoidMagePieces == <<"void_mage_helm", "void_knight_top", "void_knight_robe", "void_knight_gloves">>

\* C3: every effect get_active_effects returns has the context's combat style
\* among its combat_styles and its condition met by the facts of the context;
\* with the four void mage pieces equipped a Melee context holds no
\* void_magic, neither detected nor resolved, and its multipliers are those
\* of the same context without the pieces.
C3_StyleAndConditionGate ==
    /\ \A e \in Range(active) \cup Range(Returned) :
           /\ context.combat_style \in Range(e.effect.combat_styles)
           /\ is_met(e.effect.condition, Facts(context, context.weapon_name))
    /\ context.combat_style = MELEE =>
           /\ "void_magic" \notin Range(Ids(active)) \cup Range(Ids(Returned))
           /\ (pc = "resolved" /\ context.equipped_items = VoidMagePieces) =>
                  LET bare == get_modifiers([context EXCEPT !.equipped_items = <<>>])
                  IN /\ Get(modifiers).accuracy_mult = bare.accuracy_mult
                     /\ Get(modifiers).damage_mult = bare.damage_mult

\* C3 witness: a Melee context wearing the four void mage pieces was resolved.
C3_Witness ==
    /\ pc = "resolved"
    /\ context.combat_style = MELEE
    /\ context.equipped_items = VoidMagePieces
    /\ context.weapon_name = "Abyssal whip"
    /\ Get(modifiers).accuracy_mult = ROne

\* The multipliers and special fields of a result or of a modifier.
Numbers(m) ==
    <<m.accuracy_mult, m.damage_mult, m.double_accuracy_roll, m.min_hit_percent,
      m.max_hit_percent, m.extra_hits, m.scales_with_target_magic,
      m.scales_with_missing_hp, m.ignores_defence, m.ignores_prayer>>

\* C4: active_effects holds the stacking-resolved effects of effective proc
\* chance >= 1 and proc_effects those below 1; the two lists share no effect
\* and together are the stacking-resolved list; the multipliers and the
\* special fields are those of resolving active_effects alone, so an effect
\* of proc chance below 1 contributes nothing (keris_triple leaves damage_mult
\* at what the guaranteed effects give).
C4_ProcEffectsApart ==
    pc = "resolved" =>
        LET m == Get(modifiers)
        IN /\ \A e \in Range(m.active_effects) : RGeq(e.effective_proc_chance, ROne)
           /\ \A e \in Range(m.proc_effects) : RLt(e.effective_proc_chance, ROne)
           /\ Range(m.active_effects) \cap Range(m.proc_effects) = {}
           /\ Len(m.active_effects) + Len(m.proc_effects) = Len(stacked)
           /\ \A e \in Range(stacked) :
                  Count(m.active_effects, e) + Count(m.proc_effects, e) = Count(stacked, e)
           /\ Numbers(m) = Numbers(resolve_modifiers(m.active_effects, context))
           /\ m.accuracy_mult = ExpectedMult(m.active_effects, AccuracyOf)
           /\ m.damage_mult = RMul(ExpectedMult(m.active_effects, DamageOf),
                                   HpFactor(m.active_effects, context))
           /\ "keris_triple" \notin Range(Ids(m.active_effects))

\* C4 witness: keris_triple (1/51 chance, damage x3) was resolved next to a
\* guaranteed effect, and damage_mult is the guaranteed effect's alone.
C4_Witness ==
    /\ pc = "resolved"
    /\ Ids(active) = <<"keris_triple", "cape_a">>
    /\ Ids(Get(modifiers).proc_effects) = <<"keris_triple">>
    /\ Ids(Get(modifiers).active_effects) = <<"cape_a">>
    /\ Get(modifiers).damage_mult = Rat(3, 2)

\* 1 + (max_hp - current_hp) / max_hp with current_hp = max(1, floor(hp * max_hp)),
\* for the HP fraction hp = <<numerator, denominator>>.
MissingHpFactor(hp, max_hp) ==
    LET floored == (hp[1] * max_hp) \div hp[2]
        current_hp == IF floored < 1 THEN 1 ELSE floored
    IN Rat(max_hp + (max_hp - current_hp), max_hp)

\* C5: when a guaranteed effect outside the additive groups scales with
\* missing HP, damage_mult is the combined damage times
\* 1 + (max_hp - current_hp) / max_hp, current_hp = max(1, floor(hp * max_hp));
\* the factor is 1 + 98/99 at 1 of 99 HP, exactly 1 at full HP, at least 1,
\* below 2, and no larger than at any lower HP; without such an effect the
\* damage is not scaled.
C5_DharokFactor ==
    pc = "resolved" =>
        LET g == Guaranteed(stacked)
            hp == context.player_hp_percent
            mx == context.player_max_hp
            factor == MissingHpFactor(hp, mx)
            scales == \E i \in DOMAIN g : ~Truthy(g[i].effect.additive_group)
                                          /\ g[i].effect.modifier.scales_with_missing_hp
            dmg == Get(modifiers).damage_mult
        IN /\ scales => /\ dmg = RMul(ExpectedMult(g, DamageOf), factor)
                        /\ ~Get(modifiers).scales_with_missing_hp
           /\ ~scales => dmg = ExpectedMult(g, DamageOf)
           /\ RGeq(factor, ROne) /\ RLt(factor, Rat(2, 1))
           /\ (mx = 99 /\ hp = Rat(1, 99)) => factor = Rat(197, 99)
           /\ hp = ROne => factor = ROne
           /\ \A lower \in HpFractions :
                  RLeq(lower, hp) => RGeq(MissingHpFactor(lower, mx), factor)

\* C5 witness: Dharok's set effect alone was resolved at 1 of 99 HP and the
\* damage is 1 + 98/99.
C5_Witness ==
    /\ pc = "resolved"
    /\ Ids(active) = <<"dharoks">>
    /\ active[1].effective_proc_chance = ROne
    /\ context.player_hp_percent = Rat(1, 99) /\ context.player_max_hp = 99
    /\ Get(modifiers).damage_mult = Rat(197, 99)

\* C6: with slayer_helmet_i equipped, on a slayer task, against a target that
\* is not undead, in every style the resolved active_effects hold
\* slayer_helm_i once and slayer_helm never; when the helmet is the only
\* item and the weapon has no effect, accuracy_mult = damage_mult = 7/6.
C6_ImbuedHelmOnce ==
    (/\ pc = "resolved"
     /\ "slayer_helmet_i" \in Range(context.equipped_items)
     /\ context.on_slayer_task
     /\ "undead" \notin Range(get_target_attributes(context.target))) =>
        LET m == Get(modifiers)
        IN /\ Count(Ids(m.active_effects), "slayer_helm_i") = 1
           /\ "slayer_helm" \notin Range(Ids(m.active_effects) \o Ids(m.proc_effects))
           /\ (context.equipped_items = <<"slayer_helmet_i">> /\ detected.weapon = <<>>) =>
                  m.accuracy_mult = Rat(7, 6) /\ m.damage_mult = Rat(7, 6)

\* C6 witness: a Melee context on task wearing only slayer_helmet_i was
\* resolved after both slayer helm effects had been detected.
C6_Witness ==
    /\ pc = "resolved"
    /\ context.combat_style = MELEE
    /\ context.equipped_items = <<"slayer_helmet_i">>
    /\ context.on_slayer_task /\ IsNone(context.target)
    /\ Ids(active) = <<"slayer_helm", "slayer_helm_i">>
    /\ Get(modifiers).accuracy_mult = Rat(7, 6)

\* A weapon name no pattern of WEAPON_EFFECTS matches, in either direction.
NoWeaponPattern(weapon_name) ==
    \A i \in DOMAIN WEAPON_EFFECTS :
        /\ ~In(Chars[WEAPON_EFFECTS[i][1]], WeaponLower(weapon_name))
        /\ ~In(WeaponLower(weapon_name), Chars[WEAPON_EFFECTS[i][1]])

\* C7: a context with no equipped item, no target and a weapon name that
\* matches no weapon pattern resolves to the identity: both multipliers 1,
\* every flag false, every optional field null, both effect lists empty.
C7_EmptyIsIdentity ==
    (/\ pc = "resolved"
     /\ context.equipped_items = <<>>
     /\ IsNone(context.target)
     /\ NoWeaponPattern(context.weapon_name)) =>
        Get(modifiers) =
            [accuracy_mult |-> ROne, damage_mult |-> ROne, double_accuracy_roll |-> FALSE,
             min_hit_percent |-> None, max_hit_percent |-> None, extra_hits |-> None,
             scales_with_target_magic |-> FALSE, scales_with_missing_hp |-> FALSE,
             ignores_defence |-> FALSE, ignores_prayer |-> FALSE,
             active_effects |-> <<>>, proc_effects |-> <<>>]

\* C7 witness: such a context, on a slayer task and in the wilderness, was resolved.
C7_Witness ==
    /\ pc = "resolved"
    /\ context.equipped_items = <<>> /\ IsNone(context.target)
    /\ context.weapon_name = "Abyssal whip" /\ NoWeaponPattern("Abyssal whip")
    /\ context.on_slayer_task /\ context.in_wilderness
    /\ Get(modifiers).active_effects = <<>>

\* The ids a detection pass has emitted.
IdSet(s) == {s[i].effect.id : i \in DOMAIN s}

\* C9: no effect id is emitted by more than one of the weapon, item and set
\* passes; the item pass emits no effect registered in WEAPON_EFFECTS, none
\* granted by a SetBonus and none of source type SET.
C9_PassesDisjoint ==
    /\ IdSet(detected.weapon) \cap IdSet(detected.item) = {}
    /\ IdSet(detected.weapon) \cap IdSet(detected.set) = {}
    /\ IdSet(detected.item) \cap IdSet(detected.set) = {}
    /\ \A e \in Range(detected.item) :
           /\ \A i \in DOMAIN WEAPON_EFFECTS : WEAPON_EFFECTS[i][2].id # e.effect.id
           /\ \A i \in DOMAIN ALL_SET_BONUSES : ALL_SET_BONUSES[i][2].effect.id # e.effect.id
           /\ e.effect.source_type # "set"

\* C9 witness: the keris partisan is both the weapon and an equipped item
\* against a kalphite; the weapon pass emitted its effect and the item pass
\* emitted other effects of the same item, not that one.
C9_Witness ==
    /\ pc = "detected"
    /\ context.weapon_name = "Keris partisan"
    /\ "keris_partisan" \in Range(context.equipped_items)
    /\ "keris" \in IdSet(detected.weapon)
    /\ "keris_triple" \in IdSet(detected.item)
    /\ "keris" \notin IdSet(detected.item)

\* The set bonus that grants the effect e.
BonusOf(e) == CHOOSE i \in DOMAIN ALL_SET_BONUSES : ALL_SET_BONUSES[i][2].effect.id = e.effect.id

\* C10: the set pass emits a set's effect only when at least min_pieces of
\* its required tokens are matched by the equipped items, each token counted
\* once; the count in the provenance string lies between min_pieces and the
\* number of required tokens; and a context with fewer equipped items than
\* min_pieces yields no effect of that set.
C10_SetNeedsPieces ==
    \A e \in Range(detected.set) :
        LET set_bonus == ALL_SET_BONUSES[BonusOf(e)][2]
            matched == {i \in DOMAIN set_bonus.required_items :
                           \E j \in DOMAIN context.equipped_items :
                               NamesMatch(set_bonus.required_items[i], context.equipped_items[j])}
        IN /\ Cardinality(matched) >= set_bonus.min_pieces
           /\ Cardinality(matched) <= Len(set_bonus.required_items)
           /\ e.source = SetSource(set_bonus, Cardinality(matched))
           /\ Len(context.equipped_items) >= set_bonus.min_pieces

\* A resolution for the context of the first resolution returns what the
\* first one returned, and the list a resolution was given is the list the
\* detection passes built.
SameResult ==
    /\ (pc = "resolved" /\ Get(first).context = context) =>
           Get(modifiers) = Get(first).modifiers
    /\ pc # "start" => active = detected.weapon \o detected.item \o detected.set

\* A call leaves the context and the effect list it was given as they were.
CallFrame ==
    /\ pc \in {"start", "detected"} => context' = context
    /\ pc = "detected" => active' = active /\ detected' = detected

KnownPatterns == {Chars[WEAPON_EFFECTS[i][1]] : i \in DOMAIN WEAPON_EFFECTS}
KnownItems ==
    UNION {{Lower(Chars[ALL_EFFECTS[i][2].source_items[j]]) :
                j \in DOMAIN ALL_EFFECTS[i][2].source_items} : i \in DOMAIN ALL_EFFECTS}
    \cup UNION {{Lower(Chars[ALL_SET_BONUSES[i][2].required_items[j]]) :
                     j \in DOMAIN ALL_SET_BONUSES[i][2].required_items} :
                i \in DOMAIN ALL_SET_BONUSES}

\* C11: when the weapon name is no weapon pattern of the catalog and no
\* equipped name is a source item or set token of the catalog,
\* get_active_effects returns the empty list; the empty weapon name and
\* names that are a fragment of a catalog token are such names.
C11_UnknownNamesNothing ==
    (/\ pc # "start"
     /\ WeaponLower(context.weapon_name) \notin KnownPatterns
     /\ \A j \in DOMAIN context.equipped_items :
            Lower(Chars[context.equipped_items[j]]) \notin KnownItems) =>
        active = <<>>

\* C12: without a target no effect whose condition names a target attribute
\* is detected, and the target size is 1: a condition with minimum size 1 is
\* met (the scythe's effect is detected), one with minimum size 2 is not.
C12_NoTargetFailsClosed ==
    (pc # "start" /\ IsNone(context.target)) =>
        /\ \A e \in Range(active) : IsNone(e.effect.condition.vs_attribute)
        /\ is_met([EffectCondition EXCEPT !.target_size_min = Some(1)],
                  Facts(context, context.weapon_name))
        /\ ~is_met([EffectCondition EXCEPT !.target_size_min = Some(2)],
                   Facts(context, context.weapon_name))
        /\ (context.weapon_name = "Scythe of vitur" /\ context.combat_style = MELEE) =>
               "scythe" \in IdSet(detected.weapon)

\* C12 witness: the scythe, with a salve amulet equipped, and no target: the
\* scythe's effect was detected and the amulet's was not.
C12_Witness ==
    /\ pc = "detected"
    /\ IsNone(context.target)
    /\ context.weapon_name = "Scythe of vitur" /\ context.combat_style = MELEE
    /\ "salve_amulet_e" \in Range(context.equipped_items)
    /\ "scythe" \in IdSet(detected.weapon)
    /\ "salve_e" \notin IdSet(detected.item)

\* The hit chance of one roll for the rolls a result reports.
SingleRoll(result) == hit_chance(result.attack_roll, result.defence_roll)

\* 1 - (1 - p)^2
TwoRolls(p) == RSub(ROne, RMul(RSub(ROne, p), RSub(ROne, p)))

\* C13: whenever the modifiers a finished melee calculation used have
\* double_accuracy_roll set, the hit chance it reports is 1 - (1 - p)^2 for the
\* single-roll chance p of its rolls (3/4 for p = 1/2); no later step of the
\* calculation has put p back.
C13_DoubleRollKept ==
    \A t \in DOMAIN calls :
        (At(t, "done") /\ ~IsNone(calls[t].modifiers)
            /\ Get(calls[t].modifiers).double_accuracy_roll)
        => LET result == Get(calls[t].result)
               p == SingleRoll(result)
           IN /\ result.hit_chance = TwoRolls(p)
              /\ (p = Rat(1, 2) => result.hit_chance = Rat(3, 4))

\* C15: the modifiers every finished calculate() used are those
\* EffectEngine.get_modifiers gives for the fields the setup holds during that
\* call, also when a field was assigned since the calculation before.
C15_MemoFollowsSetup ==
    \A t \in DOMAIN calls :
        (At(t, "done") /\ calls[t].kind = "calculator" /\ ~IsNone(calls[t].modifiers))
        => calls[t].modifiers = Some(get_modifiers(ContextOf(Get(setup))))

\* What calculate() returns for setup s when nothing else runs.
Alone(s) ==
    IF IsNone(s.weapon) THEN NoWeaponResult
    ELSE calculate_melee(s, get_modifiers(ContextOf(s)))

\* C14: in every interleaving of the threads' steps, a finished get_modifiers
\* call on a context of its own has the modifiers it has when it runs alone,
\* and a finished calculate() on the shared calculator has the result it has
\* when it runs alone.
C14_InterleavingsAgree ==
    \A t \in DOMAIN calls :
        At(t, "done") =>
            IF calls[t].kind = "engine"
            THEN calls[t].modifiers = Some(get_modifiers(Get(calls[t].context)))
            ELSE calls[t].result = Some(Alone(Get(setup)))

\* Two calculate() calls that both found the memo empty and both detected,
\* next to each other, and both finished.
C14_Witness ==
    /\ \A t \in 1..2 : At(t, "done") /\ calls[t].kind = "calculator"
                       /\ ~IsNone(calls[t].context) /\ lists[t] # <<>>

\* C16: a condition whose only populated field is its weapon-name patterns,
\* evaluated with a weapon name, is met exactly when some normalized pattern
\* is a substring of the normalized weapon name or the normalized weapon name
\* is a substring of that pattern.
C16_PatternEitherWay ==
    (~IsNone(value) /\ Get(args).condition \in WeaponConditions
        /\ ~IsNone(Get(args).facts.weapon_name))
    => LET patterns == Get(Get(args).condition.using_specific_weapon)
           name == WeaponNormalized(Get(Get(args).facts.weapon_name))
       IN Get(value) = (\E i \in DOMAIN patterns :
                            \/ In(WeaponNormalized(patterns[i]), name)
                            \/ In(name, WeaponNormalized(patterns[i])))

\* Every populated field of condition c, the weapon patterns aside, holds of facts f.
FieldsHold(c, f) ==
    /\ ~IsNone(c.vs_attribute) =>
           /\ ~IsNone(f.target_attributes)
           /\ \E i \in DOMAIN Get(f.target_attributes) :
                  Get(f.target_attributes)[i] = Get(c.vs_attribute)
    /\ c.on_slayer_task => f.on_slayer_task
    /\ c.in_wilderness => f.in_wilderness
    /\ ~IsNone(c.player_hp_below) => RLt(f.player_hp_percent, Get(c.player_hp_below))
    /\ ~IsNone(c.target_size_min) => f.target_size >= Get(c.target_size_min)
    /\ ~IsNone(c.using_attack_type) =>
           /\ ~IsNone(f.attack_type)
           /\ Lower(Chars[Get(f.attack_type)]) = Lower(Chars[Get(c.using_attack_type)])

\* C18: is_met returns true exactly when every populated field holds (the
\* attribute is in the target's list, the slayer and wilderness flags are set
\* where required, the target size reaches the minimum, the attack type is
\* present and equal ignoring case); the condition with no populated field is
\* true of all facts, a null attribute list included.
C18_AllPopulatedFieldsHold ==
    (~IsNone(value) /\ IsNone(Get(args).condition.using_specific_weapon))
    => /\ Get(value) = FieldsHold(Get(args).condition, Get(args).facts)
       /\ Get(args).condition = EffectCondition => Get(value)

\* Five populated fields held at once, the attack type written in another case.
C18_Witness ==
    /\ value = Some(TRUE)
    /\ LET c == Get(args).condition
           f == Get(args).facts
       IN /\ ~IsNone(c.vs_attribute) /\ c.on_slayer_task /\ c.in_wilderness
          /\ c.target_size_min = Some(2) /\ f.target_size = 2
          /\ c.using_attack_type = Some("crush") /\ f.attack_type = Some("Crush")

\* a when it is not null, b otherwise.
FirstNonNull(a, b) == IF IsNone(a) THEN b ELSE a

\* C17: combine(a, b) multiplies the two multipliers, ORs every flag, and for
\* min_hit_percent, max_hit_percent and extra_hits gives a's value when it is
\* non-null (0.0 and the empty list included) and b's otherwise; the default
\* EffectModifier is a left and a right identity.
C17_CombineFirstNonNull ==
    ~IsNone(value) =>
        LET a == Get(args).self
            b == Get(args).other
            r == Get(value)
        IN /\ r.accuracy_mult = RMul(a.accuracy_mult, b.accuracy_mult)
           /\ r.damage_mult = RMul(a.damage_mult, b.damage_mult)
           /\ \A flag \in {"double_accuracy_roll", "scales_with_target_magic",
                           "scales_with_missing_hp", "ignores_defence", "ignores_prayer"} :
                  r[flag] = (a[flag] \/ b[flag])
           /\ \A field \in {"min_hit_percent", "max_hit_percent", "extra_hits"} :
                  r[field] = FirstNonNull(a[field], b[field])
           /\ a = EffectModifier => r = b
           /\ b = EffectModifier => r = a

\* damage_mult of the resolution of the caller's list at another HP.
DamageAt(hp, mx) ==
    resolve_modifiers(active, [context EXCEPT !.player_hp_percent = hp,
                                              !.player_max_hp = mx]).damage_mult

\* What C19 says of a resolution when `flagged` tells whether the missing-HP
\* factor is due.
FactorOnce(flagged) ==
    LET g == Guaranteed(stacked)
        factor == MissingHpFactor(context.player_hp_percent, context.player_max_hp)
        dmg == Get(modifiers).damage_mult
    IN /\ ~Get(modifiers).scales_with_missing_hp
       /\ flagged => dmg = RMul(ExpectedMult(g, DamageOf), factor)
       /\ ~flagged => \A hp \in HpFractions, mx \in MaxHps : DamageAt(hp, mx) = dmg

\* C19 as stated: every resolution returns scales_with_missing_hp = false;
\* when a guaranteed effect carries the flag the missing-HP factor is in
\* damage_mult exactly once, also when several carry it; when none carries it
\* damage_mult is the same at every HP and maximum HP.
C19_FactorOnceIfFlagged ==
    pc = "resolved" =>
        FactorOnce(\E i \in DOMAIN Guaranteed(stacked) :
                       Guaranteed(stacked)[i].effect.modifier.scales_with_missing_hp)

\* C19 amended: the same with the flag counted only on the guaranteed effects
\* outside the additive groups.
C19_FactorOnceOutsideGroups ==
    pc = "resolved" =>
        FactorOnce(\E i \in DOMAIN Guaranteed(stacked) :
                       /\ ~Truthy(Guaranteed(stacked)[i].effect.additive_group)
                       /\ Guaranteed(stacked)[i].effect.modifier.scales_with_missing_hp)

\* Two guaranteed effects that carry the flag were resolved at half HP, and
\* the damage is 1 + 1/2, not its square.
C19_Witness ==
    /\ pc = "resolved"
    /\ Len(Guaranteed(stacked)) = 2
    /\ \A i \in 1..2 : Guaranteed(stacked)[i].effect.modifier.scales_with_missing_hp
    /\ context.player_hp_percent = Rat(1, 2) /\ context.player_max_hp = 4
    /\ Get(modifiers).damage_mult = Rat(3, 2)
    /\ ~Get(modifiers).scales_with_missing_hp

\* The fields of a ResolvedModifiers that C20 compares: the multipliers, the
\* special fields, and the two effect lists as sets.
OrderFree(m) ==
    [accuracy_mult |-> m.accuracy_mult, damage_mult |-> m.damage_mult,
     double_accuracy_roll |-> m.double_accuracy_roll,
     min_hit_percent |-> m.min_hit_percent, max_hit_percent |-> m.max_hit_percent,
     extra_hits |-> m.extra_hits,
     scales_with_target_magic |-> m.scales_with_target_magic,
     scales_with_missing_hp |-> m.scales_with_missing_hp,
     ignores_defence |-> m.ignores_defence, ignores_prayer |-> m.ignores_prayer,
     active_effects |-> {m.active_effects[i] : i \in DOMAIN m.active_effects},
     proc_effects |-> {m.proc_effects[i] : i \in DOMAIN m.proc_effects}]

Positions(s, g) ==
    {i \in DOMAIN s : Truthy(s[i].effect.stacking_group) /\ GroupOf(s[i]) = g}

\* The first position in s of a member of g whose priority is the highest of g in s.
FirstOfTop(s, g) ==
    CHOOSE i \in Positions(s, g) :
        /\ \A j \in Positions(s, g) :
               s[j].effect.stacking_priority <= s[i].effect.stacking_priority
        /\ \A j \in Positions(s, g) :
               s[j].effect.stacking_priority = s[i].effect.stacking_priority => i <= j

\* For every stacking group of the input, the member kept is the first input
\* member of the highest priority.
TieKeepsFirst ==
    pc = "resolved" =>
        \A g \in {GroupOf(e) : e \in Range(Grouped(active))} :
            \A i \in Positions(stacked, g) : stacked[i] = active[FirstOfTop(active, g)]

\* The resolution leaves the list it was given in the order it had.
KeepsOrder == pc = "detected" => active' = active

\* C21: when several input members of a stacking group share the highest
\* priority, resolve_stacking keeps the one that comes first in the input,
\* and the caller's list keeps its order.
C21_TieKeepsFirst == []TieKeepsFirst /\ [][KeepsOrder]_vars

\* C21 witness: Cape B came before Cape A, both of priority 1 in one
\* stacking group, and Cape B was kept.
C21_Witness ==
    /\ pc = "resolved"
    /\ Ids(active) = <<"cape_b", "cape_a">>
    /\ active[1].effect.stacking_priority = active[2].effect.stacking_priority
    /\ Ids(stacked) = <<"cape_b">>

SalveIds == {"salve", "salve_e", "salve_ei"}

HelmIds == {"slayer_helm", "slayer_helm_i"}

\* The ids of the effects a resolution applied, guaranteed or by chance.
Applied(m) == Range(Ids(m.active_effects) \o Ids(m.proc_effects))

\* C22: a salve effect and a slayer helm effect never both apply: when the
\* condition-gated list holds both, one salve effect and no helm effect is
\* applied, and with salve_ei in a list of that group alone accuracy_mult =
\* damage_mult = 6/5; when the gated list holds a helm effect and no salve
\* effect, as with a salve amulet worn against a target that is not undead,
\* a helm effect is applied, with multipliers 7/6.
C22_SalveOrHelm ==
    pc = "resolved" =>
        LET m == Get(modifiers)
            gated == Range(Ids(active))
            applied == Applied(m)
        IN /\ ~(applied \cap SalveIds # {} /\ applied \cap HelmIds # {})
           /\ (gated \cap SalveIds # {} /\ gated \cap HelmIds # {}) =>
                  /\ applied \cap HelmIds = {}
                  /\ Cardinality(applied \cap SalveIds) = 1
           /\ ("salve_ei" \in gated /\ gated \subseteq SalveIds \cup HelmIds) =>
                  m.accuracy_mult = Rat(6, 5) /\ m.damage_mult = Rat(6, 5)
           /\ (gated \cap SalveIds = {} /\ gated \cap HelmIds # {}) =>
                  /\ Cardinality(applied \cap HelmIds) = 1
                  /\ gated \subseteq HelmIds => m.accuracy_mult = Rat(7, 6) /\ m.damage_mult = Rat(7, 6)

\* C22 witness: salve_amulet_ei and slayer_helmet_i were worn on task against
\* an undead target, in Ranged; salve_ei alone was applied.
C22_Witness ==
    /\ pc = "resolved"
    /\ context.combat_style = RANGED
    /\ context.equipped_items = <<"slayer_helmet_i", "salve_amulet_ei">>
    /\ context.on_slayer_task
    /\ "undead" \in Range(get_target_attributes(context.target))
    /\ Ids(active) = <<"slayer_helm_i", "salve_ei">>
    /\ Applied(Get(modifiers)) = {"salve_ei"}
    /\ Get(modifiers).accuracy_mult = Rat(6, 5)

\* A salve amulet worn on task against a target that is not undead, with a
\* slayer helmet: the helm effect was applied.
C22_HelmKept ==
    /\ pc = "resolved"
    /\ context.equipped_items = <<"salve_amulet_ei", "slayer_helmet_i">>
    /\ context.on_slayer_task
    /\ "undead" \notin Range(get_target_attributes(context.target))
    /\ Applied(Get(modifiers)) \cap HelmIds # {}

\* C23: the list get_active_effects returns holds every effect id at most
\* once, whatever the weapon name and the equipped items.
C23_EachIdOnce ==
    pc = "detected" => \A i, j \in DOMAIN active : active[i].effect.id = active[j].effect.id => i = j

\* The equipped items are all among the given names, and there is one at least.
WearsOnly(names) == context.equipped_items # <<>> /\ Range(context.equipped_items) \subseteq names

\* C24: an equipped item activates the effects of its own tier only: the
\* plain slayer_helmet and black_mask never slayer_helm_i, the plain
\* salve_amulet never salve_e or salve_ei; worn alone in Ranged or Magic these
\* melee-only items leave accuracy_mult = damage_mult = 1.
C24_OwnTierOnly ==
    /\ (pc = "detected" /\ WearsOnly({"slayer_helmet", "black_mask"})) =>
           "slayer_helm_i" \notin Range(Ids(active))
    /\ (pc = "detected" /\ WearsOnly({"salve_amulet"})) =>
           Range(Ids(active)) \cap {"salve_e", "salve_ei"} = {}
    /\ (/\ pc = "resolved"
        /\ WearsOnly({"slayer_helmet", "black_mask", "salve_amulet"})
        /\ context.combat_style \in {RANGED, MAGIC}) =>
           Get(modifiers).accuracy_mult = ROne /\ Get(modifiers).damage_mult = ROne

\* Some context made for the effect has it in the list of get_active_effects.
Activates(effect) ==
    \E c \in ContextsFor(effect) : effect.id \in {e.effect.id : e \in Range(get_active_effects(c))}

\* C25: every effect of ALL_EFFECTS is activated by some context, the amulet
\* of avarice (against a revenant in the wilderness) included.
C25_EveryEffectActivates == \A i \in DOMAIN ALL_EFFECTS : Activates(ALL_EFFECTS[i][2])

\* Every effect of ALL_EFFECTS but the amulet of avarice is activated by some
\* context.
C25_AllButAvarice ==
    \A i \in DOMAIN ALL_EFFECTS : ALL_EFFECTS[i][1] # "avarice" => Activates(ALL_EFFECTS[i][2])

\* No reachable state has the amulet of avarice in the list of
\* get_active_effects.
C25_AvariceNever == "avarice" \notin {e.effect.id : e \in Range(active)}

\* The ids of the catalog effects whose stacking_group is g.
CatalogGroup(g) ==
    {ALL_EFFECTS[j][2].id : j \in {k \in DOMAIN ALL_EFFECTS : ALL_EFFECTS[k][2].stacking_group = Some(g)}}

\* C26: STACKING_GROUPS[g] lists exactly the ids of the catalog effects whose
\* stacking_group is g, and every stacking_group an effect names is a key of
\* STACKING_GROUPS with at least one member; so every grouped effect
\* get_active_effects returns is listed under its group.
C26_GroupsMatchCatalog ==
    /\ \A i \in DOMAIN STACKING_GROUPS :
           Range(STACKING_GROUPS[i][2]) = CatalogGroup(STACKING_GROUPS[i][1])
    /\ \A j \in DOMAIN ALL_EFFECTS :
           ~IsNone(ALL_EFFECTS[j][2].stacking_group) =>
               \E i \in DOMAIN STACKING_GROUPS :
                   /\ STACKING_GROUPS[i][1] = Get(ALL_EFFECTS[j][2].stacking_group)
                   /\ STACKING_GROUPS[i][2] # <<>>
    /\ \A e \in Range(Grouped(active)) :
           \E i \in DOMAIN STACKING_GROUPS :
               /\ STACKING_GROUPS[i][1] = GroupOf(e)
               /\ e.effect.id \in Range(STACKING_GROUPS[i][2])

\* C27: no two effects of ALL_EFFECTS that share a stacking_group have the
\* same stacking_priority; so among the members of a group that
\* get_active_effects returns exactly one has the highest priority, and it is
\* the one resolve_stacking keeps.
C27_DistinctPriorities ==
    /\ \A i, j \in DOMAIN ALL_EFFECTS :
           (/\ i # j
            /\ ~IsNone(ALL_EFFECTS[i][2].stacking_group)
            /\ ALL_EFFECTS[i][2].stacking_group = ALL_EFFECTS[j][2].stacking_group) =>
               ALL_EFFECTS[i][2].stacking_priority # ALL_EFFECTS[j][2].stacking_priority
    /\ pc = "resolved" =>
           \A e \in Range(Grouped(active)) :
               \/ \E o \in Members(active, GroupOf(e)) :
                      o.effect.stacking_priority > e.effect.stacking_priority
               \/ /\ e \in Range(stacked)
                  /\ \A o \in Members(active, GroupOf(e)) \ {e} :
                         o.effect.stacking_priority < e.effect.stacking_priority

\* C27 witness: all five effects of slayer_undead were active (Melee, on task,
\* undead target) and salve_ei, of priority 5, was kept.
C27_Witness ==
    /\ pc = "resolved"
    /\ Range(Ids(active)) = {"slayer_helm", "slayer_helm_i", "salve", "salve_e", "salve_ei"}
    /\ {e.effect.stacking_priority : e \in Range(active)} = 1..5
    /\ Ids(stacked) = <<"salve_ei">>

InUnitInterval(p) == RLeq(RZero, p) /\ RLeq(p, ROne)

\* C28: no PassiveEffect has a proc_chance outside [0, 1]: none in the
\* catalog, none that a constructor call has returned, and none in a list
\* handed to resolve_modifiers.
C28_ProcChanceInRange ==
    /\ \A i \in DOMAIN ALL_EFFECTS : InUnitInterval(ALL_EFFECTS[i][2].proc_chance)
    /\ ~IsNone(value) => InUnitInterval(Get(value).proc_chance)
    /\ \A e \in Range(active) : InUnitInterval(e.effect.proc_chance)

\* Every effect of the catalog, and so every effect the detection passes
\* return, has a proc_chance in [0, 1].
C28_CatalogInRange ==
    /\ \A i \in DOMAIN ALL_EFFECTS : InUnitInterval(ALL_EFFECTS[i][2].proc_chance)
    /\ pc # "idle" => \A e \in Range(active) : InUnitInterval(e.effect.proc_chance)

\* An effect constructed with proc_chance 3/2 was resolved, as a guaranteed one.
C28_OutOfRangeResolved ==
    /\ pc = "resolved"
    /\ active # <<>> /\ active[1].effect.proc_chance = Rat(3, 2)
    /\ Ids(Get(modifiers).active_effects) = <<active[1].effect.id>>

\* The entries of the clock's queue, and those whose tick the clock has passed.
Queued == IF IsNone(clock) THEN {} ELSE Range(Get(clock).queue)

Overdue == {e \in Queued : e[1] < Get(clock).tick}

\* C29: no scheduled action stays in the queue past its tick, whatever
\* delay_ticks it was scheduled with: it is executed, once, when the clock is
\* advanced to its tick, and does not keep later actions from being executed.
C29_NoActionLeftBehind ==
    /\ Overdue = {}
    /\ \A i, j \in DOMAIN executed : executed[i].entry = executed[j].entry => i = j
    /\ \A i \in DOMAIN executed : executed[i].at >= executed[i].entry[1]

\* Whatever advance() executes, it executes once and on the tick it was
\* scheduled for, and every scheduled action is either queued or executed.
C29_ExecutedOnceOnItsTick ==
    ~IsNone(clock) =>
        /\ \A i, j \in DOMAIN executed : executed[i].entry = executed[j].entry => i = j
        /\ \A i \in DOMAIN executed : executed[i].at = executed[i].entry[1]
        /\ {e[3] : e \in Queued} \cup {executed[i].entry[3] : i \in DOMAIN executed}
               = 0..(Get(clock).counter - 1)
        /\ \A i \in DOMAIN executed : executed[i].entry \notin Queued

\* While an action is overdue, advance() executes nothing and nothing leaves
\* the queue.
C29_OverdueBlocks ==
    [][Overdue # {} => (executed' = executed /\ Queued \subseteq Range(Get(clock').queue))]_vars

\* An action left behind: scheduled with delay 0 at tick 0, it is still queued
\* at tick 2, and so is the action scheduled with delay 1 for tick 1.
C29_Blocked ==
    /\ ~IsNone(clock)
    /\ Get(clock).tick = 2
    /\ Get(clock).queue = << <<0, ActionPriority.NORMAL, 0>>, <<1, ActionPriority.NORMAL, 1>> >>
    /\ executed = <<>>

\* With the clock kept advancing, an action queued before the last tick for a
\* tick within MaxTick is executed, unless an action is left behind.
C29_RunsUnlessLeftBehind ==
    \A id \in 0..(MaxScheduled - 1) :
        (\E e \in Queued : e[3] = id /\ e[1] <= MaxTick /\ Get(clock).tick < MaxTick)
            ~> (\/ \E i \in DOMAIN executed : executed[i].entry[3] = id
                \/ Overdue # {})

KillReturned == ~IsNone(kill) /\ Get(kill).pc = "returned"

\* What a returned call has collected: num_simulations kill times, each of
\* one attack interval at least.
KillTimesComplete ==
    KillReturned =>
        /\ Len(Get(kill).kill_times) = Get(kill).num_simulations
        /\ \A i \in DOMAIN Get(kill).kill_times : Get(kill).kill_times[i] >= 1

\* C30: simulate_kill returns for every CombatResult and positive hitpoints,
\* hit_chance 0 and max_hit 0 included, with exactly num_simulations kill
\* times, each a positive number of attack intervals.
C30_KillTerminates == <>KillReturned /\ []KillTimesComplete

DamagePossible ==
    ~IsNone(kill) /\ RLt(RZero, Get(kill).result.hit_chance) /\ Get(kill).result.max_hit >= 1

\* simulate_kill returns whenever hit_chance and max_hit are both positive.
C30_TerminatesIfDamagePossible == DamagePossible ~> KillReturned

\* With hit_chance 0 or max_hit 0 the hitpoints never fall and the call never
\* returns.
C30_NeverReturnsWithoutDamage ==
    (~IsNone(kill) /\ (Get(kill).result.hit_chance = RZero \/ Get(kill).result.max_hit = 0))
        => [](~KillReturned /\ (Get(kill).pc # "for" => Get(kill).hp_remaining = Get(kill).hitpoints))

====
